---- MODULE Spec2Model ----
(***************************************************************************)
(* Request-shaping and resource-protection layer of the music              *)
(* recommendation bot: the TTL/LRU caches (Cache, OptimizedCache), the     *)
(* sliding-window rate limiters (RateLimiter, AdvancedRateLimiter), the    *)
(* cached recommendation lookup (OptimizedSpotifyAPI.get_recommendations)  *)
(* and the message handler (MusicCommands.on_message).                     *)
(*                                                                         *)
(* Time is the reading of time.time(), in whole seconds.                   *)
(***************************************************************************)
EXTENDS Integers, Sequences, FiniteSets, TLC

VARIABLES
    now,              \* time.time()
    cache_class,      \* which cache class was constructed: "Cache" or "OptimizedCache"
    optimized_cache,  \* OptimizedCache: [cache |-> key -> CacheEntry, access_order |-> deque]
    simple_cache,     \* Cache.cache: key -> <<value, timestamp>>
    cache_op,         \* history: the last cache call and its return value
    shadow,           \* history: key -> the value and the time of its last set, for the keys present
    limiter_class,    \* which limiter class was constructed: "RateLimiter" or "AdvancedRateLimiter"
    burst_limit,      \* AdvancedRateLimiter.burst_limit
    requests,         \* RateLimiter.requests, AdvancedRateLimiter.requests: user_id -> timestamps
    lim_op,           \* history: the last limiter call and its return value
    admitted,         \* history: user_id -> the timestamps of all calls is_allowed admitted
    lock,             \* AdvancedRateLimiter._lock: the task holding it, or None
    pc,               \* task -> where its is_allowed call stands
    decision,         \* task -> what its call decided under the lock
    task_ret,         \* task -> what its call returned
    task_call,        \* task -> the limiter method it calls, for which identity, and a query's result
    race_slots,       \* history: free slots when the later of two overlapping calls was made, else -1
    msg_pc,           \* message -> where its on_message invocation stands
    replies,          \* message -> the outcome replies delivered to its sender
    processing_users, \* MusicCommands.processing_users
    user_cooldowns,   \* MusicCommands.user_cooldowns
    user_stats,       \* bot.user_stats
    performance_metrics,  \* bot.performance_metrics (the counters on_message updates)
    admitted_at,      \* history: message -> current_time when is_allowed admitted it, else -1
    calls,            \* history: message -> the collaborator calls made for it, with what they gave
    rec_cache,        \* OptimizedSpotifyAPI.cache
    token_cache,      \* OptimizedSpotifyAPI.token_cache
    token_lock,       \* OptimizedSpotifyAPI._token_lock: the caller holding it, or None
    call,             \* caller -> where its get_recommendations call stands, and what it did
    n_calls,          \* history: how many get_recommendations calls were made
    ext_cache,        \* OptimizedOpenRouterAPI.cache
    ext,              \* one extract_music_keywords call: where it stands and what it did
    conc_cache,       \* an OptimizedCache its callers use concurrently
    conc_lock,        \* its _lock: the task inside `async with self._lock`, or None
    conc_task,        \* per task: the call it makes and where the call stands
    conc_calls,       \* number of calls made
    lin_cache,        \* history: the same calls, applied one at a time in lock order
    since_clear,      \* history: the keys set since the last clear, in lock order
    cache_locks,      \* cache -> the caller inside `async with self._lock` of that cache, or None
    seed_keywords,    \* the keywords a recommendation request is built from
    seed_call,        \* history: the API that built the request, with its seeds, features and params
    client,           \* SecureAPIClient: [session, max_retries, retry_delay]
    req,              \* one SecureAPIClient.request call: where it stands and what it did
    stored            \* history: cache key -> the result a completed lookup stored, while it stays stored

cache_vars == <<cache_class, optimized_cache, simple_cache, cache_op, shadow>>

limiter_vars == <<limiter_class, burst_limit, requests, lim_op, admitted>>

race_vars == <<lock, pc, decision, task_ret, race_slots, task_call>>

bot_vars == <<msg_pc, replies, processing_users, user_cooldowns, user_stats,
              performance_metrics, admitted_at, calls>>

lookup_vars == <<rec_cache, token_cache, token_lock, call, n_calls, stored>>

request_vars == <<client, req>>

extract_vars == <<ext_cache, ext>>

lock_vars == <<cache_locks>>

seed_vars == <<seed_keywords, seed_call>>

conc_vars == <<conc_cache, conc_lock, conc_task, conc_calls, lin_cache, since_clear>>

vars == <<now, cache_vars, limiter_vars, race_vars, bot_vars, lookup_vars,
         request_vars,
         extract_vars,
         conc_vars,
         lock_vars,
         seed_vars>>

----------------------------------------------------------------------------
(* Bounds of the model *)

MaxTime == 2        \* the clock stops here
MaxSize == 2        \* OptimizedCache(max_size=...)
Ttl == 1            \* Cache(ttl=...), OptimizedCache(ttl=...)
MaxAccess == 2      \* cap on CacheEntry.access_count
MaxOrderLen == 3    \* cap on len(access_order)

MaxRequests == 3    \* RateLimiter(max_requests=...), AdvancedRateLimiter(max_requests=...)
Window == 12        \* RateLimiter(window=...), AdvancedRateLimiter(window=...)
MaxLimiterTime == 14  \* the clock stops here when a limiter is driven
MaxBotTime == 5     \* the clock stops here when on_message is driven
MaxLookupTime == 2  \* the clock stops here when get_recommendations is driven
MaxRetries == 3     \* largest SecureAPIClient(max_retries=...)
MaxCalls == 2       \* cap on the get_recommendations or extract_music_keywords calls made
MaxConcCalls == 4   \* cap on the calls the concurrent tasks make on one cache
BurstWindow == 10   \* "Burst window of 10 seconds"

Keys == {"A", "B", "C"}
Users == {"u1"}
Tasks == {"t1", "t2"}
\* the (key, value) pairs the set calls are drawn from
SetInputs == {<<"A", "v">>, <<"A", "w">>, <<"B", "v">>, <<"C", "w">>}
None == "None"

----------------------------------------------------------------------------
(* Helpers on dicts and deques *)

EmptyDict == [k \in {} |-> None]

DictPut(d, k, e) == [x \in DOMAIN d \cup {k} |-> IF x = k THEN e ELSE d[x]]

DictDel(d, k) == [x \in DOMAIN d \ {k} |-> d[x]]

InSeq(s, k) == \E i \in 1..Len(s) : s[i] = k

FirstIndex(s, k) == CHOOSE i \in 1..Len(s) : s[i] = k /\ \A j \in 1..(i - 1) : s[j] # k

\* deque.remove(k): removes the first occurrence of k
DequeRemove(s, k) ==
    LET i == FirstIndex(s, k)
    IN  SubSeq(s, 1, i - 1) \o SubSeq(s, i + 1, Len(s))

----------------------------------------------------------------------------
(* OptimizedCache (optimized_discord_bot.py) as operators on              *)
(* c = [cache |-> ..., access_order |-> ...]                               *)

NewOptimizedCache == [cache |-> EmptyDict, access_order |-> <<>>]

CacheEntry(value, timestamp, access_count, last_accessed) ==
    [value |-> value, timestamp |-> timestamp,
     access_count |-> access_count, last_accessed |-> last_accessed]

\* _remove_entry
RemoveEntry(c, key) ==
    [cache |-> IF key \in DOMAIN c.cache THEN DictDel(c.cache, key) ELSE c.cache,
     access_order |-> IF InSeq(c.access_order, key)
                      THEN DequeRemove(c.access_order, key)
                      ELSE c.access_order]

\* _evict_lru
EvictLru(c) ==
    IF c.access_order # <<>>
    THEN LET lru_key == Head(c.access_order)
         IN  [cache |-> IF lru_key \in DOMAIN c.cache
                        THEN DictDel(c.cache, lru_key)
                        ELSE c.cache,
              access_order |-> Tail(c.access_order)]
    ELSE c

\* get: the expiry test
ExpiredMutStrict(entry, ttl, t) == t - entry.timestamp >= ttl

Expired(entry, ttl, t) == t - entry.timestamp > ttl

\* get: the entry after a hit
TouchedMutNoCount(entry, t) ==
    CacheEntry(entry.value, entry.timestamp, entry.access_count, t)

Touched(entry, t) ==
    CacheEntry(entry.value, entry.timestamp, entry.access_count + 1, t)

\* get: the cache after the call
OptGetState(c, key, ttl, t) ==
    IF key \in DOMAIN c.cache
    THEN IF Expired(c.cache[key], ttl, t)
         THEN RemoveEntry(c, key)
         ELSE [cache |-> DictPut(c.cache, key, Touched(c.cache[key], t)),
               access_order |->
                   Append(IF InSeq(c.access_order, key)
                          THEN DequeRemove(c.access_order, key)
                          ELSE c.access_order, key)]
    ELSE c

\* get: the value returned
OptGetResult(c, key, ttl, t) ==
    IF key \in DOMAIN c.cache /\ ~Expired(c.cache[key], ttl, t)
    THEN c.cache[key].value
    ELSE None

\* set
OptSetStateMutKeepCount(c, key, value, max_size, t) ==
    LET c1 == IF Cardinality(DOMAIN c.cache) >= max_size THEN EvictLru(c) ELSE c
        count == IF key \in DOMAIN c1.cache THEN c1.cache[key].access_count ELSE 1
    IN  [cache |-> DictPut(c1.cache, key, CacheEntry(value, t, count, t)),
         access_order |-> Append(c1.access_order, key)]

OptSetState(c, key, value, max_size, t) ==
    LET c1 == IF Cardinality(DOMAIN c.cache) >= max_size THEN EvictLru(c) ELSE c
    IN  [cache |-> DictPut(c1.cache, key, CacheEntry(value, t, 1, t)),
         access_order |-> Append(c1.access_order, key)]

\* clear
OptClearStateMutKeepOrder(c) == [cache |-> EmptyDict, access_order |-> c.access_order]

OptClearState(c) == [cache |-> EmptyDict, access_order |-> <<>>]

\* a / b of two integers, kept as a fraction; the int 0 is 0 / 1
Ratio(a, b) == [num |-> a, den |-> b]

\* get_stats
OptStatsMutCountOnly(c, max_size) ==
    LET total_entries == Cardinality(DOMAIN c.cache)
    IN  [total_entries |-> total_entries,
         max_size |-> max_size,
         utilization |-> Ratio(total_entries, max_size),
         total_accesses |-> total_entries,
         avg_accesses_per_entry |-> Ratio(0, 1)]

OptStats(c, max_size) ==
    LET total_entries == Cardinality(DOMAIN c.cache)
        RECURSIVE Sum(_)
        Sum(S) == IF S = {} THEN 0
                  ELSE LET k == CHOOSE k \in S : TRUE
                       IN  c.cache[k].access_count + Sum(S \ {k})
        total_accesses == Sum(DOMAIN c.cache)
        avg_accesses == IF total_entries > 0 THEN Ratio(total_accesses, total_entries)
                        ELSE Ratio(0, 1)
    IN  [total_entries |-> total_entries,
         max_size |-> max_size,
         utilization |-> Ratio(total_entries, max_size),
         total_accesses |-> total_accesses,
         avg_accesses_per_entry |-> avg_accesses]

----------------------------------------------------------------------------
(* Cache (discord_music_bot.py) as operators on the dict *)

SimpleLive(entry, ttl, t) == t - entry[2] < ttl

SimpleGetState(d, key, ttl, t) ==
    IF key \in DOMAIN d /\ ~SimpleLive(d[key], ttl, t) THEN DictDel(d, key) ELSE d

SimpleGetResult(d, key, ttl, t) ==
    IF key \in DOMAIN d /\ SimpleLive(d[key], ttl, t) THEN d[key][1] ELSE None

SimpleSetState(d, key, value, t) == DictPut(d, key, <<value, t>>)

----------------------------------------------------------------------------
(* RateLimiter (discord_music_bot.py) and AdvancedRateLimiter              *)
(* (optimized_discord_bot.py) as operators on one user's timestamps        *)

\* RateLimiter: user_requests[:] = [t for t in user_requests if now - t < window]
SimplePruned(user_requests, window, t) ==
    SelectSeq(user_requests, LAMBDA req_time : t - req_time < window)

\* AdvancedRateLimiter: while user_requests and now - user_requests[0] > window: popleft()
PrunedMutKeepAll(user_requests, window, t) == user_requests

PrunedMutOnce(user_requests, window, t) ==
    IF user_requests # <<>> /\ t - Head(user_requests) > window
    THEN Tail(user_requests)
    ELSE user_requests

RECURSIVE Pruned(_, _, _)
Pruned(user_requests, window, t) ==
    IF user_requests # <<>> /\ t - Head(user_requests) > window
    THEN Pruned(Tail(user_requests), window, t)
    ELSE user_requests

\* AdvancedRateLimiter.is_allowed: the burst check, on the pruned timestamps
BurstRejectedMutNever(user_requests, limit, t) == FALSE

BurstRejected(user_requests, limit, t) ==
    /\ Len(user_requests) >= limit
    /\ t - Head(user_requests) < BurstWindow

\* is_allowed: the regular rate limit, on the pruned timestamps
WithinLimitMutInclusive(user_requests, max_requests) == Len(user_requests) <= max_requests

WithinLimit(user_requests, max_requests) == Len(user_requests) < max_requests

\* RateLimiter.is_allowed: [ret |-> returned, requests |-> timestamps kept]
SimpleIsAllowed(user_requests, max_requests, window, t) ==
    LET kept == SimplePruned(user_requests, window, t)
    IN  IF WithinLimit(kept, max_requests)
        THEN [ret |-> TRUE, burst |-> FALSE, requests |-> Append(kept, t)]
        ELSE [ret |-> FALSE, burst |-> FALSE, requests |-> kept]

\* AdvancedRateLimiter.is_allowed; burst: the burst check rejected the call
AdvancedIsAllowedMutNoRecord(user_requests, max_requests, window, limit, t) ==
    LET kept == Pruned(user_requests, window, t)
    IN  IF BurstRejected(kept, limit, t)
        THEN [ret |-> FALSE, burst |-> TRUE, requests |-> kept]
        ELSE [ret |-> WithinLimit(kept, max_requests), burst |-> FALSE, requests |-> kept]

AdvancedIsAllowed(user_requests, max_requests, window, limit, t) ==
    LET kept == Pruned(user_requests, window, t)
    IN  IF BurstRejected(kept, limit, t)
        THEN [ret |-> FALSE, burst |-> TRUE, requests |-> kept]
        ELSE IF WithinLimit(kept, max_requests)
             THEN [ret |-> TRUE, burst |-> FALSE, requests |-> Append(kept, t)]
             ELSE [ret |-> FALSE, burst |-> FALSE, requests |-> kept]

Max0(n) == IF n > 0 THEN n ELSE 0

\* get_remaining, on the pruned timestamps
Remaining(user_requests, max_requests) == Max0(max_requests - Len(user_requests))

\* get_user_stats, on the pruned timestamps
UserStatsMutStrict(user_requests, max_requests, window, t) ==
    [requests_in_window |-> Len(user_requests),
     remaining_requests |-> Max0(max_requests - Len(user_requests)),
     window_reset_time |-> t + window,
     is_rate_limited |-> Len(user_requests) > max_requests]

UserStats(user_requests, max_requests, window, t) ==
    [requests_in_window |-> Len(user_requests),
     remaining_requests |-> Max0(max_requests - Len(user_requests)),
     window_reset_time |-> t + window,
     is_rate_limited |-> Len(user_requests) >= max_requests]

----------------------------------------------------------------------------
(* A limiter under a sequence of calls *)

NoLimOp == [op |-> "none", user |-> None, ret |-> None, burst |-> FALSE, t |-> 0]

LimOp(op, user, ret, burst) == [op |-> op, user |-> user, ret |-> ret, burst |-> burst, t |-> now]

\* burst_limit as the constructor may be given it; RateLimiter has none
BurstLimits == 1..(MaxRequests + 1)

InitLimiter ==
    /\ limiter_class \in {"RateLimiter", "AdvancedRateLimiter"}
    /\ burst_limit \in IF limiter_class = "RateLimiter" THEN {0} ELSE BurstLimits
    /\ requests = [u \in Users |-> <<>>]
    /\ lim_op = NoLimOp
    /\ admitted = [u \in Users |-> <<>>]

LimiterStep(op, user_id, r, ret) ==
    /\ requests' = [requests EXCEPT ![user_id] = r.requests]
    /\ lim_op' = LimOp(op, user_id, ret, r.burst)
    /\ admitted' = IF op = "is_allowed" /\ r.ret
                   THEN [admitted EXCEPT ![user_id] = Append(@, now)]
                   ELSE admitted
    /\ UNCHANGED <<now, limiter_class, burst_limit, cache_vars, race_vars, bot_vars, lookup_vars, seed_vars, lock_vars, conc_vars, extract_vars, request_vars>>

RateLimiterIsAllowed(user_id) ==
    /\ limiter_class = "RateLimiter"
    /\ LET r == SimpleIsAllowed(requests[user_id], MaxRequests, Window, now)
       IN  LimiterStep("is_allowed", user_id, r, r.ret)

RateLimiterGetRemaining(user_id) ==
    /\ limiter_class = "RateLimiter"
    /\ LET kept == SimplePruned(requests[user_id], Window, now)
       IN  LimiterStep("get_remaining", user_id, [requests |-> kept, burst |-> FALSE, ret |-> FALSE],
                       Remaining(kept, MaxRequests))

IsAllowed(user_id) ==
    /\ limiter_class = "AdvancedRateLimiter"
    /\ LET r == AdvancedIsAllowed(requests[user_id], MaxRequests, Window, burst_limit, now)
       IN  LimiterStep("is_allowed", user_id, r, r.ret)

GetRemaining(user_id) ==
    /\ limiter_class = "AdvancedRateLimiter"
    /\ LET kept == Pruned(requests[user_id], Window, now)
       IN  LimiterStep("get_remaining", user_id, [requests |-> kept, burst |-> FALSE, ret |-> FALSE],
                       Remaining(kept, MaxRequests))

GetUserStats(user_id) ==
    /\ limiter_class = "AdvancedRateLimiter"
    /\ LET kept == Pruned(requests[user_id], Window, now)
       IN  LimiterStep("get_user_stats", user_id, [requests |-> kept, burst |-> FALSE, ret |-> FALSE],
                       UserStats(kept, MaxRequests, Window, now))

TickLimiter ==
    /\ now < MaxLimiterTime
    /\ now' = now + 1
    /\ UNCHANGED <<cache_vars, limiter_vars, race_vars, bot_vars, lookup_vars, seed_vars, lock_vars, conc_vars, extract_vars, request_vars>>

NextLimiter ==
    \/ \E u \in Users : RateLimiterIsAllowed(u)
    \/ \E u \in Users : RateLimiterGetRemaining(u)
    \/ \E u \in Users : IsAllowed(u)
    \/ \E u \in Users : GetRemaining(u)
    \/ \E u \in Users : GetUserStats(u)
    \/ TickLimiter

----------------------------------------------------------------------------
(* Concurrent AdvancedRateLimiter.is_allowed calls for one user.  Each     *)
(* call waits for _lock, prunes and decides under it, then appends and     *)
(* releases.  acquire() does not suspend a call while the lock is free and *)
(* the body has no await, so a call works with one clock reading.          *)

RaceUser == "u1"

\* asyncio.Lock: acquire() goes through when nobody holds the lock
LockFreeMutNoLock(l) == TRUE

LockFree(l) == l = None

InFlight(t) == pc[t] \in {"acquire", "locked", "decided"}

\* the identities of concurrent callers, and the methods they call
RaceUsers == {"u1", "u2"}

LimiterMethods == {"is_allowed", "get_remaining", "get_user_stats"}

CallOf(user_id, op) ==
    [user |-> user_id, op |-> op, remaining |-> -1, stats |-> UserStats(<<>>, MaxRequests, Window, 0)]

InitRace ==
    /\ task_call = [t \in Tasks |-> CallOf(RaceUser, "is_allowed")]
    /\ lock = None
    /\ pc = [t \in Tasks |-> "idle"]
    /\ decision = [t \in Tasks |-> None]
    /\ task_ret = [t \in Tasks |-> FALSE]
    /\ race_slots = -1

\* the call is made and reaches "async with self._lock"
RaceCall(t) ==
    /\ pc[t] = "idle"
    /\ pc' = [pc EXCEPT ![t] = "acquire"]
    /\ race_slots' =
           IF \E o \in Tasks \ {t} : InFlight(o)
           THEN MaxRequests - Len(Pruned(requests[RaceUser], Window, now))
           ELSE -1
    /\ task_call' = [task_call EXCEPT ![t] = CallOf(RaceUser, "is_allowed")]
    /\ UNCHANGED <<now, cache_vars, bot_vars, lookup_vars, seed_vars, lock_vars, conc_vars, extract_vars, request_vars, limiter_vars, lock, decision, task_ret>>

\* a call of any of the three methods, for any identity, reaches "async with self._lock"
RaceCallAs(t, user_id, op) ==
    /\ pc[t] = "idle"
    /\ pc' = [pc EXCEPT ![t] = "acquire"]
    /\ task_call' = [task_call EXCEPT ![t] = CallOf(user_id, op)]
    /\ UNCHANGED <<now, cache_vars, bot_vars, lookup_vars, seed_vars, lock_vars, conc_vars, extract_vars, request_vars, limiter_vars, lock, decision, task_ret,
                   race_slots>>

\* async with self._lock
RaceAcquire(t) ==
    /\ pc[t] = "acquire"
    /\ LockFree(lock)
    /\ lock' = t
    /\ pc' = [pc EXCEPT ![t] = "locked"]
    /\ UNCHANGED <<now, cache_vars, bot_vars, lookup_vars, seed_vars, lock_vars, conc_vars, extract_vars, request_vars, limiter_vars, decision, task_ret, race_slots,
                   task_call>>

\* the pruning loop, the burst check and the test of the regular limit
RaceDecide(t) ==
    /\ pc[t] = "locked"
    /\ LET user_id == task_call[t].user
           kept == Pruned(requests[user_id], Window, now)
       IN  /\ requests' = [requests EXCEPT ![user_id] = kept]
           /\ decision' = [decision EXCEPT ![t] =
                  IF task_call[t].op # "is_allowed" THEN "query"
                  ELSE IF BurstRejected(kept, burst_limit, now) THEN "burst"
                  ELSE IF WithinLimit(kept, MaxRequests) THEN "admit"
                  ELSE "limit"]
           /\ task_call' = [task_call EXCEPT
                  ![t].remaining = IF task_call[t].op = "get_remaining"
                                   THEN Remaining(kept, MaxRequests) ELSE @,
                  ![t].stats = IF task_call[t].op = "get_user_stats"
                               THEN UserStats(kept, MaxRequests, Window, now) ELSE @]
    /\ pc' = [pc EXCEPT ![t] = "decided"]
    /\ UNCHANGED <<now, cache_vars, bot_vars, lookup_vars, seed_vars, lock_vars, conc_vars, extract_vars, request_vars, limiter_class, burst_limit, lim_op, admitted,
                   lock, task_ret, race_slots>>

\* user_requests.append(now) when admitted; return, leaving the lock
RaceReturn(t) ==
    /\ pc[t] = "decided"
    /\ requests' = IF decision[t] = "admit"
                   THEN [requests EXCEPT ![task_call[t].user] = Append(@, now)]
                   ELSE requests
    /\ task_ret' = [task_ret EXCEPT ![t] = (decision[t] = "admit")]
    /\ lock' = IF lock = t THEN None ELSE lock
    /\ pc' = [pc EXCEPT ![t] = "returned"]
    /\ UNCHANGED <<now, cache_vars, bot_vars, lookup_vars, seed_vars, lock_vars, conc_vars, extract_vars, request_vars, limiter_class, burst_limit, lim_op, admitted,
                   decision, race_slots, task_call>>

\* the callers go on
RaceDone ==
    /\ \A t \in Tasks : pc[t] \in {"idle", "returned"}
    /\ \E t \in Tasks : pc[t] = "returned"
    /\ pc' = [t \in Tasks |-> "idle"]
    /\ decision' = [t \in Tasks |-> None]
    /\ task_ret' = [t \in Tasks |-> FALSE]
    /\ race_slots' = -1
    /\ task_call' = [t \in Tasks |-> CallOf(RaceUser, "is_allowed")]
    /\ UNCHANGED <<now, cache_vars, bot_vars, lookup_vars, seed_vars, lock_vars, conc_vars, extract_vars, request_vars, limiter_vars, lock>>

TickRace ==
    /\ \A t \in Tasks : pc[t] = "idle"
    /\ now < MaxLimiterTime
    /\ now' = now + 1
    /\ UNCHANGED <<cache_vars, limiter_vars, race_vars, bot_vars, lookup_vars, seed_vars, lock_vars, conc_vars, extract_vars, request_vars>>

\* the clock, for callers of several identities
TickIdentities ==
    /\ \A t \in Tasks : pc[t] = "idle"
    /\ now < MaxTime
    /\ now' = now + 1
    /\ UNCHANGED <<cache_vars, limiter_vars, race_vars, bot_vars, lookup_vars, seed_vars, lock_vars, conc_vars, extract_vars, request_vars>>

NextIdentities ==
    \/ \E t \in Tasks, u \in RaceUsers, op \in LimiterMethods : RaceCallAs(t, u, op)
    \/ \E t \in Tasks : RaceAcquire(t)
    \/ \E t \in Tasks : RaceDecide(t)
    \/ \E t \in Tasks : RaceReturn(t)
    \/ RaceDone
    \/ TickIdentities

NextRace ==
    \/ \E t \in Tasks : RaceCall(t)
    \/ \E t \in Tasks : RaceAcquire(t)
    \/ \E t \in Tasks : RaceDecide(t)
    \/ \E t \in Tasks : RaceReturn(t)
    \/ RaceDone
    \/ TickRace

----------------------------------------------------------------------------
(* The cache under a sequence of calls *)

NoOp == [op |-> "none", key |-> None, ret |-> None, age |-> -1,
         stats |-> OptStats(NewOptimizedCache, MaxSize)]

\* age: seconds since the last set of the key, -1 when the key was not in the mapping
CacheOp(op, key, ret) ==
    [op |-> op, key |-> key, ret |-> ret,
     age |-> IF key \in DOMAIN shadow THEN now - shadow[key].set_at ELSE -1,
     stats |-> NoOp.stats]

\* history: what the calls so far stored, for the keys still in the mapping
ShadowOf(keys, old, key, value, t) ==
    [k \in keys |-> IF k = key /\ value # None THEN [value |-> value, set_at |-> t]
                    ELSE old[k]]

InitCache ==
    /\ cache_class \in {"Cache", "OptimizedCache"}
    /\ optimized_cache = NewOptimizedCache
    /\ simple_cache = EmptyDict
    /\ cache_op = NoOp
    /\ shadow = EmptyDict

OptGet(key) ==
    /\ cache_class = "OptimizedCache"
    /\ key \in DOMAIN optimized_cache.cache =>
           optimized_cache.cache[key].access_count < MaxAccess
    /\ optimized_cache' = OptGetState(optimized_cache, key, Ttl, now)
    /\ cache_op' = CacheOp("get", key, OptGetResult(optimized_cache, key, Ttl, now))
    /\ shadow' = ShadowOf(DOMAIN optimized_cache'.cache, shadow, None, None, now)
    /\ UNCHANGED <<now, cache_class, simple_cache, limiter_vars, race_vars, bot_vars, lookup_vars, seed_vars, lock_vars, conc_vars, extract_vars, request_vars>>

OptSet(key, value) ==
    /\ cache_class = "OptimizedCache"
    /\ optimized_cache' = OptSetState(optimized_cache, key, value, MaxSize, now)
    /\ Len(optimized_cache'.access_order) <= MaxOrderLen
    /\ cache_op' = CacheOp("set", key, None)
    /\ shadow' = ShadowOf(DOMAIN optimized_cache'.cache, shadow, key, value, now)
    /\ UNCHANGED <<now, cache_class, simple_cache, limiter_vars, race_vars, bot_vars, lookup_vars, seed_vars, lock_vars, conc_vars, extract_vars, request_vars>>

OptClear ==
    /\ cache_class = "OptimizedCache"
    /\ optimized_cache' = OptClearState(optimized_cache)
    /\ cache_op' = CacheOp("clear", None, None)
    /\ shadow' = EmptyDict
    /\ UNCHANGED <<now, cache_class, simple_cache, limiter_vars, race_vars, bot_vars, lookup_vars, seed_vars, lock_vars, conc_vars, extract_vars, request_vars>>

OptGetStats ==
    /\ cache_class = "OptimizedCache"
    /\ cache_op' = [CacheOp("get_stats", None, None) EXCEPT
                         !.stats = OptStats(optimized_cache, MaxSize)]
    /\ UNCHANGED <<now, cache_class, optimized_cache, simple_cache, shadow, limiter_vars, race_vars, bot_vars, lookup_vars, seed_vars, lock_vars, conc_vars, extract_vars, request_vars>>

SimpleGet(key) ==
    /\ cache_class = "Cache"
    /\ simple_cache' = SimpleGetState(simple_cache, key, Ttl, now)
    /\ cache_op' = CacheOp("get", key, SimpleGetResult(simple_cache, key, Ttl, now))
    /\ shadow' = ShadowOf(DOMAIN simple_cache', shadow, None, None, now)
    /\ UNCHANGED <<now, cache_class, optimized_cache, limiter_vars, race_vars, bot_vars, lookup_vars, seed_vars, lock_vars, conc_vars, extract_vars, request_vars>>

SimpleSet(key, value) ==
    /\ cache_class = "Cache"
    /\ simple_cache' = SimpleSetState(simple_cache, key, value, now)
    /\ cache_op' = CacheOp("set", key, None)
    /\ shadow' = ShadowOf(DOMAIN simple_cache', shadow, key, value, now)
    /\ UNCHANGED <<now, cache_class, optimized_cache, limiter_vars, race_vars, bot_vars, lookup_vars, seed_vars, lock_vars, conc_vars, extract_vars, request_vars>>

SimpleClear ==
    /\ cache_class = "Cache"
    /\ simple_cache' = EmptyDict
    /\ cache_op' = CacheOp("clear", None, None)
    /\ shadow' = EmptyDict
    /\ UNCHANGED <<now, cache_class, optimized_cache, limiter_vars, race_vars, bot_vars, lookup_vars, seed_vars, lock_vars, conc_vars, extract_vars, request_vars>>

Tick ==
    /\ now < MaxTime
    /\ now' = now + 1

TickCache == Tick /\ UNCHANGED <<cache_vars, limiter_vars, race_vars, bot_vars, lookup_vars, seed_vars, lock_vars, conc_vars, extract_vars, request_vars>>

NextCache ==
    \/ \E k \in Keys : OptGet(k)
    \/ \E kv \in SetInputs : OptSet(kv[1], kv[2])
    \/ OptClear
    \/ OptGetStats
    \/ \E k \in Keys : SimpleGet(k)
    \/ \E kv \in SetInputs : SimpleSet(kv[1], kv[2])
    \/ SimpleClear
    \/ TickCache

----------------------------------------------------------------------------
(* MusicCommands.on_message (cogs/music_commands.py), one step per stretch *)
(* of code between two awaits that suspend.  The limiter calls do not      *)
(* suspend: _lock is never held across an await.  request_times and        *)
(* avg_response_time (reporting only) are left out.                        *)

Msgs == {"m1", "m2", "m3"}

\* message.author.id
Author(m) == "u1"

\* "2 second cooldown"
Cooldown == 2

\* what extract_music_keywords returns: a keyword list, empty or not (it catches its errors)
ExtractResults == {"[]", "[keyword]"}

\* what a failed collaborator call raises: asyncio.TimeoutError, aiohttp.ClientError,
\* Exception("Failed to get Spotify token: 401"), any other Exception
ErrorKinds == {"timeout", "connectivity", "authentication", "unknown"}

\* what get_recommendations does: returns a track list, empty or not, or raises
LookupResults == {"[]", "[track]"} \cup ErrorKinds

\* not x, for a list
IsEmptyListMutNever(x) == FALSE

IsEmptyList(x) == x = "[]"

Ended(m) == msg_pc[m] \in {"dropped", "returned", "raised"}

InitBot ==
    /\ msg_pc = [m \in Msgs |-> "pending"]
    /\ replies = [m \in Msgs |-> <<>>]
    /\ processing_users = {}
    /\ user_cooldowns = [u \in Users |-> 0]
    /\ user_stats = [u \in Users |-> 0]
    /\ performance_metrics = [total_requests |-> 0, cache_hits |-> 0,
                              cache_misses |-> 0, api_errors |-> 0]
    /\ admitted_at = [m \in Msgs |-> -1]
    /\ calls = [m \in Msgs |-> <<>>]

NoBot == InitBot

Goto(m, label) == msg_pc' = [msg_pc EXCEPT ![m] = label]

Count(name) == performance_metrics' =
    [performance_metrics EXCEPT ![name] = performance_metrics[name] + 1]

Deliver(m, outcome) == replies' = [replies EXCEPT ![m] = Append(replies[m], outcome)]

Called(m, name, result) ==
    calls' = [calls EXCEPT ![m] = Append(calls[m], [call |-> name, result |-> result])]

\* if user_id in self.processing_users
AlreadyProcessingMutNever(user_id) == FALSE

AlreadyProcessing(user_id) == user_id \in processing_users

\* remaining_time = int(user_stats['window_reset_time'] - current_time), with the
\* stats get_user_stats returns at the clock reading t; the clock counts whole
\* seconds, so int() has nothing to cut off
RemainingTimeMutNoWindow(user_requests, current_time, t) == t - current_time

RemainingTime(user_requests, current_time, t) ==
    UserStats(Pruned(user_requests, Window, t), MaxRequests, Window, t).window_reset_time
        - current_time

\* on_message up to its first suspending await: the filters, the limiter, the marking
OnMessage(m) ==
    /\ msg_pc[m] = "pending"
    /\ \E author_bot \in BOOLEAN, starts_with_prefix \in BOOLEAN :
        LET user_id == Author(m)
            current_time == now
            r == AdvancedIsAllowed(requests[user_id], MaxRequests, Window, burst_limit, now)
        IN  IF author_bot \/ starts_with_prefix
            THEN /\ Goto(m, "ignored")
                 /\ UNCHANGED <<requests, processing_users, user_cooldowns, admitted_at>>
            ELSE IF AlreadyProcessing(user_id)
            THEN /\ Goto(m, "dropped")
                 /\ UNCHANGED <<requests, processing_users, user_cooldowns, admitted_at>>
            ELSE IF current_time - user_cooldowns[user_id] < Cooldown
            THEN /\ Goto(m, "dropped")
                 /\ UNCHANGED <<requests, processing_users, user_cooldowns, admitted_at>>
            ELSE IF ~r.ret
            THEN \* get_user_stats prunes again, then the reply is sent
                 /\ requests' = [requests EXCEPT ![user_id] = Pruned(r.requests, Window, now)]
                 /\ Goto(m, "reply_rate_limited")
                 /\ UNCHANGED <<processing_users, user_cooldowns, admitted_at>>
            ELSE /\ requests' = [requests EXCEPT ![user_id] = r.requests]
                 /\ admitted_at' = [admitted_at EXCEPT ![m] = current_time]
                 /\ processing_users' = processing_users \cup {user_id}
                 /\ user_cooldowns' = [user_cooldowns EXCEPT ![user_id] = current_time]
                 /\ Goto(m, "typing")
    /\ UNCHANGED <<now, cache_vars, limiter_class, burst_limit, lim_op, admitted, race_vars,
                   replies, user_stats, performance_metrics, calls, lookup_vars, seed_vars, lock_vars, conc_vars, extract_vars, request_vars>>

\* await message.reply(embed=rate_limit_embed); return
ReplyRateLimited(m) ==
    /\ msg_pc[m] = "reply_rate_limited"
    /\ \E sent \in BOOLEAN :
        IF sent THEN Deliver(m, "RateLimited") /\ Goto(m, "returned")
                ELSE Goto(m, "raised") /\ UNCHANGED replies
    /\ UNCHANGED <<now, cache_vars, limiter_vars, race_vars, processing_users, user_cooldowns,
                   user_stats, performance_metrics, admitted_at, calls, lookup_vars, seed_vars, lock_vars, conc_vars, extract_vars, request_vars>>

\* async with message.channel.typing(): entered, or raising outside the try
EnterTyping(m) ==
    /\ msg_pc[m] = "typing"
    /\ \E entered \in BOOLEAN :
        IF entered THEN Count("total_requests") /\ Goto(m, "extract")
                   ELSE Goto(m, "raised") /\ UNCHANGED performance_metrics
    /\ UNCHANGED <<now, cache_vars, limiter_vars, race_vars, replies, processing_users,
                   user_cooldowns, user_stats, admitted_at, calls, lookup_vars, seed_vars, lock_vars, conc_vars, extract_vars, request_vars>>

\* keywords = await extract_music_keywords(user_message)
Extract(m) ==
    /\ msg_pc[m] = "extract"
    /\ \E keywords \in ExtractResults :
        /\ IF IsEmptyList(keywords)
           THEN Count("cache_misses") /\ Goto(m, "reply_no_keywords")
           ELSE Goto(m, "lookup") /\ UNCHANGED performance_metrics
        /\ Called(m, "extract", keywords)
    /\ UNCHANGED <<now, cache_vars, limiter_vars, race_vars, replies, processing_users,
                   user_cooldowns, user_stats, admitted_at, lookup_vars, seed_vars, lock_vars, conc_vars, extract_vars, request_vars>>

\* tracks = await get_recommendations(keywords)
Lookup(m) ==
    /\ msg_pc[m] = "lookup"
    /\ \E tracks \in LookupResults :
        /\ IF tracks \in ErrorKinds
           THEN Count("api_errors") /\ Goto(m, "reply_failed") /\ UNCHANGED user_stats
           ELSE IF IsEmptyList(tracks)
           THEN Count("cache_misses") /\ Goto(m, "reply_no_results") /\ UNCHANGED user_stats
           ELSE /\ user_stats' = [user_stats EXCEPT ![Author(m)] = user_stats[Author(m)] + 1]
                /\ Count("cache_hits")
                /\ Goto(m, "reply_success")
        /\ Called(m, "lookup", tracks)
    /\ UNCHANGED <<now, cache_vars, limiter_vars, race_vars, replies, processing_users,
                   user_cooldowns, admitted_at, lookup_vars, seed_vars, lock_vars, conc_vars, extract_vars, request_vars>>

ReplyOutcome(label) ==
    CASE label = "reply_no_keywords" -> "NoKeywords"
      [] label = "reply_no_results" -> "NoResults"
      [] label = "reply_success" -> "Success"

\* await message.reply(...) inside the try: sent (then finally), or except Exception
Reply(m) ==
    /\ msg_pc[m] \in {"reply_no_keywords", "reply_no_results", "reply_success"}
    /\ \E sent \in BOOLEAN :
        IF sent
        THEN /\ Deliver(m, ReplyOutcome(msg_pc[m]))
             /\ processing_users' = processing_users \ {Author(m)}
             /\ Goto(m, "returned")
             /\ UNCHANGED performance_metrics
        ELSE /\ Count("api_errors")
             /\ Goto(m, "reply_failed")
             /\ UNCHANGED <<replies, processing_users>>
    /\ UNCHANGED <<now, cache_vars, limiter_vars, race_vars, user_cooldowns, user_stats,
                   admitted_at, calls, lookup_vars, seed_vars, lock_vars, conc_vars, extract_vars, request_vars>>

\* await message.reply(embed=error_embed) in the except block, then finally
ReplyFailed(m) ==
    /\ msg_pc[m] = "reply_failed"
    /\ \E sent \in BOOLEAN :
        IF sent THEN Deliver(m, "Failed") /\ Goto(m, "returned")
                ELSE Goto(m, "raised") /\ UNCHANGED replies
    /\ processing_users' = processing_users \ {Author(m)}
    /\ UNCHANGED <<now, cache_vars, limiter_vars, race_vars, user_cooldowns, user_stats,
                   performance_metrics, admitted_at, calls, lookup_vars, seed_vars, lock_vars, conc_vars, extract_vars, request_vars>>

TickBot ==
    /\ now < MaxBotTime
    /\ now' = now + 1
    /\ UNCHANGED <<cache_vars, limiter_vars, race_vars, bot_vars, lookup_vars, seed_vars, lock_vars, conc_vars, extract_vars, request_vars>>

NextBot ==
    \/ \E m \in Msgs : OnMessage(m)
    \/ \E m \in Msgs : ReplyRateLimited(m)
    \/ \E m \in Msgs : EnterTyping(m)
    \/ \E m \in Msgs : Extract(m)
    \/ \E m \in Msgs : Lookup(m)
    \/ \E m \in Msgs : Reply(m)
    \/ \E m \in Msgs : ReplyFailed(m)
    \/ TickBot

----------------------------------------------------------------------------
(* OptimizedSpotifyAPI.get_recommendations and _get_access_token           *)
(* (optimized_discord_bot.py), one step per stretch of code between two    *)
(* awaits that suspend.  A keyword is a string, written as the sequence of *)
(* its characters; the HTTP exchange is the collaborator's answer.         *)

Callers == {"c1", "c2"}

\* ord(c)
Ord(c) == CASE c = "," -> 44 [] c = "a" -> 97 [] c = "b" -> 98

\* s < t for two strings
RECURSIVE StrLess(_, _)
StrLess(s, t) ==
    IF t = <<>> THEN FALSE
    ELSE IF s = <<>> THEN TRUE
    ELSE IF Ord(Head(s)) # Ord(Head(t)) THEN Ord(Head(s)) < Ord(Head(t))
    ELSE StrLess(Tail(s), Tail(t))

\* the list with x put before the first element greater than x
RECURSIVE Inserted(_, _)
Inserted(sorted, x) ==
    IF sorted = <<>> THEN <<x>>
    ELSE IF StrLess(x, Head(sorted)) THEN <<x>> \o sorted
    ELSE <<Head(sorted)>> \o Inserted(Tail(sorted), x)

\* sorted(keywords)
SortedMutUnsorted(keywords) == keywords

RECURSIVE Sorted(_)
Sorted(keywords) ==
    IF keywords = <<>> THEN <<>>
    ELSE Inserted(Sorted(SubSeq(keywords, 1, Len(keywords) - 1)), keywords[Len(keywords)])

\* ','.join(words)
RECURSIVE Joined(_)
Joined(words) ==
    IF words = <<>> THEN <<>>
    ELSE IF Len(words) = 1 THEN words[1]
    ELSE words[1] \o <<",">> \o Joined(Tail(words))

\* hashlib.md5(...).hexdigest(), taken as collision-free
Md5(text) == [md5_of |-> text]

\* cache_key = hashlib.md5(','.join(sorted(keywords)).encode()).hexdigest()
CacheKey(keywords) == Md5(Joined(Sorted(keywords)))

\* the keyword lists get_recommendations is called with: ['a', 'b'], ['b', 'a'],
\* ['a'] and ['a,b']
KeywordLists ==
    {<< <<"a">>, <<"b">> >>, << <<"b">>, <<"a">> >>, << <<"a">> >>, << <<"a", ",", "b">> >>}

\* the collaborator's answer to the recommendations request: status 200 with
\* tracks, status 200 without, or anything else
LookupResponses == {"[track]", "[]", "error"}

\* the collaborator's answer to the token request
TokenResponses == {"token", "error"}

\* bool(x), for what the caches hold
Truthy(x) == x \notin {None, "[]", ""}

\* OptimizedCache(ttl=3500) against OptimizedCache(ttl=1800)
TokenTtl == Ttl + 1

\* OptimizedCache, async with self._lock: the lock is free
CacheLockFreeMutNoLock(l) == TRUE

CacheLockFree(l) == l = None

\* the caches of the two APIs, each with its own _lock
ApiCaches == {"spotify_api.cache", "spotify_api.token_cache", "openrouter_api.cache"}

NoCacheLocks == cache_locks = [name \in ApiCaches |-> None]

\* async with self._lock: entered by the caller
Entered(locks, name, holder) == [locks EXCEPT ![name] = holder]

\* async with self._lock: left when the method returns
ExitedMutHeld(locks, name) == locks

Exited(locks, name) == [locks EXCEPT ![name] = None]

\* one call of a method of the cache: the lock is taken, the body runs, the lock
\* is released
CacheCall(name, holder) ==
    /\ CacheLockFree(cache_locks[name])
    /\ cache_locks' = Exited(Entered(cache_locks, name, holder), name)

NoCall == [pc |-> "idle", keywords |-> <<>>, key |-> None, expected |-> None,
           lookups |-> 0, tokens |-> 0, ret |-> None]

InitLookup ==
    /\ rec_cache = NewOptimizedCache
    /\ token_cache = NewOptimizedCache
    /\ token_lock = None
    /\ call = [c \in Callers |-> NoCall]
    /\ n_calls = 0
    /\ stored = EmptyDict

\* the cap on access_count and on len(access_order), on a get
GetInBounds(c, key, ttl) ==
    (key \in DOMAIN c.cache /\ ~Expired(c.cache[key], ttl, now))
        => c.cache[key].access_count < MaxAccess

\* history: what stays stored of the completed lookups, after a cache call
StoredOf(keys, key, value, sorted_keywords) ==
    [k \in keys |-> IF k = key /\ value # None
                    THEN [value |-> value, set_at |-> now, keywords |-> sorted_keywords]
                    ELSE stored[k]]

\* get_recommendations up to its first suspending await: the key, cache.get, the hit test;
\* a caller whose call is over may call again
GetRecommendations(c, keywords) ==
    LET cache_key == CacheKey(keywords)
        cached_result == OptGetResult(rec_cache, cache_key, Ttl, now)
        expected == IF /\ cache_key \in DOMAIN stored
                       /\ stored[cache_key].keywords = Sorted(keywords)
                       /\ now - stored[cache_key].set_at <= Ttl
                    THEN stored[cache_key].value ELSE None
    IN  /\ call[c].pc \in {"idle", "returned", "raised"}
        /\ n_calls < MaxCalls
        /\ n_calls' = n_calls + 1
        /\ GetInBounds(rec_cache, cache_key, Ttl)
        /\ rec_cache' = OptGetState(rec_cache, cache_key, Ttl, now)
        /\ stored' = StoredOf(DOMAIN rec_cache'.cache, cache_key, None, <<>>)
        /\ call' = [call EXCEPT ![c] =
               [pc |-> IF Truthy(cached_result) THEN "returned" ELSE "token_lock",
                keywords |-> keywords, key |-> cache_key, expected |-> expected, lookups |-> 0, tokens |-> 0,
                ret |-> IF Truthy(cached_result) THEN cached_result ELSE None]]
        /\ CacheCall("spotify_api.cache", c)
        /\ UNCHANGED <<now, cache_vars, limiter_vars, race_vars, bot_vars, seed_vars, conc_vars, extract_vars, request_vars, token_cache,
                       token_lock>>

\* _get_access_token: async with self._token_lock, token_cache.get, the hit test;
\* on a hit the lock is released and the recommendations request is sent
GetAccessToken(c) ==
    LET cached_token == OptGetResult(token_cache, "spotify_token", TokenTtl, now)
    IN  /\ call[c].pc = "token_lock"
        /\ token_lock = None
        /\ GetInBounds(token_cache, "spotify_token", TokenTtl)
        /\ token_cache' = OptGetState(token_cache, "spotify_token", TokenTtl, now)
        /\ IF Truthy(cached_token)
           THEN /\ call' = [call EXCEPT ![c].pc = "lookup_request",
                                        ![c].lookups = call[c].lookups + 1]
                /\ UNCHANGED token_lock
           ELSE /\ call' = [call EXCEPT ![c].pc = "token_request",
                                        ![c].tokens = call[c].tokens + 1]
                /\ token_lock' = c
        /\ CacheCall("spotify_api.token_cache", c)
        /\ UNCHANGED <<now, cache_vars, limiter_vars, race_vars, bot_vars, seed_vars, conc_vars, extract_vars, request_vars, rec_cache, n_calls,
                       stored>>

\* _get_access_token: the answer to the token request; the token is cached and the
\* recommendations request is sent, or the call raises
TokenResponse(c) ==
    /\ call[c].pc = "token_request"
    /\ \E response \in TokenResponses :
        IF response # "error"
        THEN /\ Len(token_cache.access_order) < MaxOrderLen
             /\ token_cache' = OptSetState(token_cache, "spotify_token", response, MaxSize, now)
             /\ CacheCall("spotify_api.token_cache", c)
             /\ call' = [call EXCEPT ![c].pc = "lookup_request",
                                     ![c].lookups = call[c].lookups + 1]
        ELSE /\ call' = [call EXCEPT ![c].pc = "raised"]
             /\ UNCHANGED <<token_cache, cache_locks>>
    /\ token_lock' = None
    /\ UNCHANGED <<now, cache_vars, limiter_vars, race_vars, bot_vars, seed_vars, conc_vars, extract_vars, request_vars, rec_cache, n_calls,
                   stored>>

\* get_recommendations: the answer to the recommendations request; the tracks are
\* cached and returned, or the call raises
LookupResponse(c) ==
    /\ call[c].pc = "lookup_request"
    /\ \E response \in LookupResponses :
        IF response # "error"
        THEN /\ Len(rec_cache.access_order) < MaxOrderLen
             /\ rec_cache' = OptSetState(rec_cache, call[c].key, response, MaxSize, now)
             /\ CacheCall("spotify_api.cache", c)
             /\ stored' = StoredOf(DOMAIN rec_cache'.cache, call[c].key, response,
                                   Sorted(call[c].keywords))
             /\ call' = [call EXCEPT ![c].pc = "returned", ![c].ret = response]
        ELSE /\ call' = [call EXCEPT ![c].pc = "raised"]
             /\ UNCHANGED <<rec_cache, stored, cache_locks>>
    /\ UNCHANGED <<now, cache_vars, limiter_vars, race_vars, bot_vars, seed_vars, conc_vars, extract_vars, request_vars, token_cache,
                   token_lock, n_calls>>

\* cleanup_cache: await self.spotify_api.cache.clear()
CleanupCache ==
    /\ rec_cache # NewOptimizedCache
    /\ rec_cache' = OptClearState(rec_cache)
    /\ stored' = EmptyDict
    /\ CacheCall("spotify_api.cache", "cleanup_cache")
    /\ UNCHANGED <<now, cache_vars, limiter_vars, race_vars, bot_vars, seed_vars, conc_vars, extract_vars, request_vars, token_cache,
                   token_lock, call, n_calls>>

TickLookup ==
    /\ now < MaxLookupTime
    /\ now' = now + 1
    /\ UNCHANGED <<cache_vars, limiter_vars, race_vars, bot_vars, lookup_vars, seed_vars, lock_vars, conc_vars, extract_vars, request_vars>>

NextLookup ==
    \/ \E c \in Callers, keywords \in KeywordLists : GetRecommendations(c, keywords)
    \/ \E c \in Callers : GetAccessToken(c)
    \/ \E c \in Callers : TokenResponse(c)
    \/ \E c \in Callers : LookupResponse(c)
    \/ CleanupCache
    \/ TickLookup

----------------------------------------------------------------------------
(* SecureAPIClient.request (optimized_discord_bot.py): one step per attempt *)
(* and one per sleep                                                        *)

\* response.status of an attempt that got a response
Statuses == {200, 404, 429, 500, 503}

\* what an attempt raises instead: aiohttp.ClientError, asyncio.TimeoutError, or an
\* exception the except clause does not name
CaughtErrors == {"ClientError", "TimeoutError"}

OtherErrors == {"ValueError"}

\* an attempt's outcome: a response with its status, or the exception raised
Response(status) == [status |-> status, error |-> None]

Raised(error) == [status |-> 0, error |-> error]

IsResponse(outcome) == outcome.error = None

AttemptOutcomes ==
    {Response(status) : status \in Statuses}
        \cup {Raised(error) : error \in CaughtErrors \cup OtherErrors}

\* retry_delay: float = 1.0
RetryDelay == 1

RECURSIVE Pow2(_)
Pow2(n) == IF n = 0 THEN 1 ELSE 2 * Pow2(n - 1)

\* self.retry_delay * (2 ** attempt)
BackoffMutConstant(retry_delay, attempt) == retry_delay

Backoff(retry_delay, attempt) == retry_delay * Pow2(attempt)

\* if response.status < 500 or attempt == self.max_retries - 1: return response
ReturnsResponseMutNoLast(status, attempt, max_retries) == status < 500

ReturnsResponse(status, attempt, max_retries) ==
    status < 500 \/ attempt = max_retries - 1

NoRequest == [pc |-> "idle", attempt |-> 0, attempts |-> <<>>, slept |-> <<>>,
              result |-> Raised(None)]

InitRequest ==
    /\ client \in [session : BOOLEAN, max_retries : 0..MaxRetries, retry_delay : {RetryDelay}]
    /\ req = NoRequest

\* request(): the session test, then the for loop is entered
RequestCall ==
    /\ req.pc = "idle"
    /\ req' = IF ~client.session
              THEN [req EXCEPT !.pc = "raised", !.result = Raised("RuntimeError")]
              ELSE [req EXCEPT !.pc = "attempt"]
    /\ UNCHANGED <<now, cache_vars, limiter_vars, race_vars, bot_vars, lookup_vars, seed_vars, lock_vars, conc_vars, extract_vars, client>>

\* one pass of the loop body, up to the return, the raise or the sleep
RequestAttempt ==
    /\ req.pc = "attempt"
    /\ req.attempt < client.max_retries
    /\ \E outcome \in AttemptOutcomes :
        LET tried == [req EXCEPT !.attempts = Append(req.attempts, outcome)]
            sleeping == [tried EXCEPT
                           !.pc = "sleeping",
                           !.slept = Append(req.slept,
                                            Backoff(client.retry_delay, req.attempt))]
        IN  req' =
              IF IsResponse(outcome)
              THEN IF ReturnsResponse(outcome.status, req.attempt, client.max_retries)
                   THEN [tried EXCEPT !.pc = "returned", !.result = outcome]
                   ELSE sleeping
              ELSE IF outcome.error \in CaughtErrors
              THEN IF req.attempt = client.max_retries - 1
                   THEN [tried EXCEPT !.pc = "raised", !.result = outcome]
                   ELSE sleeping
              ELSE [tried EXCEPT !.pc = "raised", !.result = outcome]
    /\ UNCHANGED <<now, cache_vars, limiter_vars, race_vars, bot_vars, lookup_vars, seed_vars, lock_vars, conc_vars, extract_vars, client>>

\* await asyncio.sleep(...) is over: the next pass of the loop
RequestWake ==
    /\ req.pc = "sleeping"
    /\ req' = [req EXCEPT !.pc = "attempt", !.attempt = req.attempt + 1]
    /\ UNCHANGED <<now, cache_vars, limiter_vars, race_vars, bot_vars, lookup_vars, seed_vars, lock_vars, conc_vars, extract_vars, client>>

\* the loop is over without a return: raise aiohttp.ClientError("Max retries exceeded")
RequestExhausted ==
    /\ req.pc = "attempt"
    /\ req.attempt >= client.max_retries
    /\ req' = [req EXCEPT !.pc = "raised", !.result = Raised("ClientError")]
    /\ UNCHANGED <<now, cache_vars, limiter_vars, race_vars, bot_vars, lookup_vars, seed_vars, lock_vars, conc_vars, extract_vars, client>>

NextRequest ==
    \/ RequestCall
    \/ RequestAttempt
    \/ RequestWake
    \/ RequestExhausted

----------------------------------------------------------------------------
(* OptimizedOpenRouterAPI.extract_music_keywords (optimized_discord_bot.py) *)
(* with its response parser and its fallback scan.  Texts are sequences of  *)
(* characters.                                                              *)

mood_keywords ==
    << <<"h", "a", "p", "p", "y">>,
       <<"s", "a", "d">>,
       <<"e", "n", "e", "r", "g", "e", "t", "i", "c">>,
       <<"c", "a", "l", "m">>,
       <<"r", "o", "m", "a", "n", "t", "i", "c">>,
       <<"m", "e", "l", "a", "n", "c", "h", "o", "l", "y">> >>

genre_keywords ==
    << <<"r", "o", "c", "k">>,
       <<"p", "o", "p">>,
       <<"j", "a", "z", "z">>,
       <<"c", "l", "a", "s", "s", "i", "c", "a", "l">>,
       <<"e", "l", "e", "c", "t", "r", "o", "n", "i", "c">>,
       <<"h", "i", "p", "-", "h", "o", "p">>,
       <<"c", "o", "u", "n", "t", "r", "y">> >>

activity_keywords ==
    << <<"w", "o", "r", "k", "o", "u", "t">>,
       <<"s", "t", "u", "d", "y">>,
       <<"p", "a", "r", "t", "y">>,
       <<"s", "l", "e", "e", "p">>,
       <<"d", "r", "i", "v", "i", "n", "g">>,
       <<"r", "u", "n", "n", "i", "n", "g">> >>

\* the messages extract_music_keywords is called with:
\* "Happy Pop", "sad calm rock pop jazz study", "unpopular", "zzz"
UserMessages ==
    { <<"H", "a", "p", "p", "y", " ", "P", "o", "p">>,
      <<"s", "a", "d", " ", "c", "a", "l", "m", " ", "r", "o", "c", "k", " ", "p", "o", "p", " ", "j", "a", "z", "z", " ",
        "s", "t", "u", "d", "y">>,
      <<"u", "n", "p", "o", "p", "u", "l", "a", "r">>,
      <<"z", "z", "z">> }

\* str.lower(), on the letters the messages hold
LowerChar(c) == CASE c = "H" -> "h" [] c = "P" -> "p" [] c = "R" -> "r" [] OTHER -> c

Lower(text) == [i \in 1..Len(text) |-> LowerChar(text[i])]

\* keyword in message_lower
Contains(text, word) ==
    \E i \in 0..(Len(text) - Len(word)) : SubSeq(text, i + 1, i + Len(word)) = word

\* keywords[:5]
FallbackLimit == 5

\* keywords[:10]
ParseLimit == 10

FirstN(seq, n) == SubSeq(seq, 1, IF Len(seq) < n THEN Len(seq) ELSE n)

FallbackKeywordExtractionMutNoLimit(user_message) ==
    SelectSeq(mood_keywords \o genre_keywords \o activity_keywords,
              LAMBDA keyword : Contains(Lower(user_message), keyword))

\* _fallback_keyword_extraction
FallbackKeywordExtraction(user_message) ==
    LET message_lower == Lower(user_message)
        keywords == SelectSeq(mood_keywords \o genre_keywords \o activity_keywords,
                              LAMBDA keyword : Contains(message_lower, keyword))
    IN  FirstN(keywords, FallbackLimit)

\* str.split(',')
RECURSIVE Split(_)
Split(text) ==
    IF \E i \in 1..Len(text) : text[i] = ","
    THEN LET i == CHOOSE j \in 1..Len(text) :
                      text[j] = "," /\ \A k \in 1..(j - 1) : text[k] # ","
         IN  <<SubSeq(text, 1, i - 1)>> \o Split(SubSeq(text, i + 1, Len(text)))
    ELSE <<text>>

\* str.strip()
RECURSIVE Strip(_)
Strip(text) ==
    IF text # <<>> /\ Head(text) = " " THEN Strip(Tail(text))
    ELSE IF text # <<>> /\ text[Len(text)] = " " THEN Strip(SubSeq(text, 1, Len(text) - 1))
    ELSE text

\* _parse_keywords_response: [] on KeyError/IndexError, else the stripped non-empty
\* pieces of the stripped content, at most 10
ParseKeywordsResponse(response) ==
    IF ~response.well_formed THEN <<>>
    ELSE LET pieces == Split(Strip(response.content))
             stripped == [i \in 1..Len(pieces) |-> Strip(pieces[i])]
         IN  FirstN(SelectSeq(stripped, LAMBDA kw : kw # <<>>), ParseLimit)

\* the collaborator's answers: status 200 with the content "rock, pop", with the
\* content " , ", with a body lacking 'choices'; status 429; or the request raises
ExtractResponses ==
    { [status |-> 200, well_formed |-> TRUE, error |-> None,
       content |-> <<"r", "o", "c", "k", ",", " ", "p", "o", "p">>],
      [status |-> 200, well_formed |-> TRUE, error |-> None, content |-> <<" ", ",", " ">>],
      [status |-> 200, well_formed |-> FALSE, error |-> None, content |-> <<>>],
      [status |-> 429, well_formed |-> TRUE, error |-> None, content |-> <<>>],
      [status |-> 0, well_formed |-> FALSE, error |-> "ClientError", content |-> <<>>],
      [status |-> 0, well_formed |-> FALSE, error |-> "TimeoutError", content |-> <<>>],
      [status |-> 0, well_formed |-> FALSE, error |-> "CancelledError", content |-> <<>>] }

NoResponse == [status |-> 0, well_formed |-> FALSE, error |-> None, content |-> <<>>]

\* the request did not raise and response.status == 200
ExtractOkMutAnyStatus(response) == response.error = None

ExtractOk(response) == response.error = None /\ response.status = 200

\* if cached_result: for the keyword list cache.get returned
CachedKeywords(c, key, ttl, t) ==
    IF key \in DOMAIN c.cache /\ ~Expired(c.cache[key], ttl, t) THEN c.cache[key].value
    ELSE <<>>

NoExtractCall == [pc |-> "idle", message |-> <<>>, key |-> None, ret |-> <<>>,
                  requests |-> 0, response |-> NoResponse, n |-> 0]

InitExtract ==
    /\ ext_cache = NewOptimizedCache
    /\ ext = NoExtractCall

\* extract_music_keywords up to the request: the key, cache.get, the hit test
ExtractCall(user_message) ==
    LET cache_key == Md5(user_message)
        cached_result == CachedKeywords(ext_cache, cache_key, Ttl, now)
    IN  /\ ext.pc \in {"idle", "returned", "raised"}
        /\ ext.n < MaxCalls
        /\ GetInBounds(ext_cache, cache_key, Ttl)
        /\ ext_cache' = OptGetState(ext_cache, cache_key, Ttl, now)
        /\ ext' = IF cached_result # <<>>
                  THEN [pc |-> "returned", message |-> user_message, key |-> cache_key,
                        ret |-> cached_result, requests |-> 0, response |-> NoResponse,
                        n |-> ext.n + 1]
                  ELSE [pc |-> "request", message |-> user_message, key |-> cache_key,
                        ret |-> <<>>, requests |-> 1, response |-> NoResponse,
                        n |-> ext.n + 1]
        /\ CacheCall("openrouter_api.cache", "extract")
        /\ UNCHANGED <<now, cache_vars, limiter_vars, race_vars, bot_vars, lookup_vars, seed_vars, conc_vars,
                       request_vars>>

\* the answer to the extraction request: parsed and cached, or the fallback scan,
\* or (cancelled) the call ends with CancelledError
ExtractResponse ==
    /\ ext.pc = "request"
    /\ \E response \in ExtractResponses :
        IF ExtractOk(response)
        THEN LET keywords == ParseKeywordsResponse(response)
             IN  /\ Len(ext_cache.access_order) < MaxOrderLen
                 /\ ext_cache' = OptSetState(ext_cache, ext.key, keywords, MaxSize, now)
                 /\ CacheCall("openrouter_api.cache", "extract")
                 /\ ext' = [ext EXCEPT !.pc = "returned", !.ret = keywords,
                                       !.response = response]
        ELSE IF response.error = "CancelledError"
        THEN /\ ext' = [ext EXCEPT !.pc = "raised", !.response = response]
             /\ UNCHANGED <<ext_cache, cache_locks>>
        ELSE /\ ext' = [ext EXCEPT !.pc = "returned",
                                   !.ret = FallbackKeywordExtraction(ext.message),
                                   !.response = response]
             /\ UNCHANGED <<ext_cache, cache_locks>>
    /\ UNCHANGED <<now, cache_vars, limiter_vars, race_vars, bot_vars, lookup_vars, seed_vars, conc_vars,
                   request_vars>>

\* cleanup_cache: await self.openrouter_api.cache.clear()
CleanupExtractCache ==
    /\ ext_cache # NewOptimizedCache
    /\ ext_cache' = OptClearState(ext_cache)
    /\ CacheCall("openrouter_api.cache", "cleanup_cache")
    /\ UNCHANGED <<now, cache_vars, limiter_vars, race_vars, bot_vars, lookup_vars, seed_vars, conc_vars,
                   request_vars, ext>>

TickExtract ==
    /\ now < MaxLookupTime
    /\ now' = now + 1
    /\ UNCHANGED <<cache_vars, limiter_vars, race_vars, bot_vars, lookup_vars, seed_vars, lock_vars, conc_vars,
                   request_vars, extract_vars>>

NextExtract ==
    \/ \E user_message \in UserMessages : ExtractCall(user_message)
    \/ ExtractResponse
    \/ CleanupExtractCache
    \/ TickExtract

----------------------------------------------------------------------------
(* OptimizedCache (optimized_discord_bot.py) under concurrent callers: one   *)
(* step per stretch of a method between two awaits.  The foreground calls    *)
(* are get and set, the hourly cleanup_cache calls clear.                    *)

\* the calls the tasks make
ConcOps ==
    {[name |-> "get", key |-> k, value |-> None] : k \in {"A", "B"}}
        \cup {[name |-> "set", key |-> "A", value |-> "v"],
              [name |-> "set", key |-> "B", value |-> "v"],
              [name |-> "set", key |-> "A", value |-> "w"]}
        \cup {[name |-> "clear", key |-> None, value |-> None],
              [name |-> "get_stats", key |-> None, value |-> None]}

NoConcCall == [pc |-> "idle", op |-> [name |-> None, key |-> None, value |-> None],
               t |-> 0, ret |-> None, expected |-> None,
               suspended |-> FALSE, contended |-> FALSE]

InitConc ==
    /\ conc_cache = NewOptimizedCache
    /\ conc_lock = None
    /\ conc_task = [t \in Tasks |-> NoConcCall]
    /\ conc_calls = 0
    /\ lin_cache = NewOptimizedCache
    /\ since_clear = {}

\* the call applied to cache c in one piece at time t: the state it leaves
Applied(c, op, t) ==
    CASE op.name = "get" -> OptGetState(c, op.key, Ttl, t)
      [] op.name = "set" -> OptSetState(c, op.key, op.value, MaxSize, t)
      [] op.name = "clear" -> OptClearState(c)
      [] OTHER -> c

\* the call applied to cache c in one piece at time t: what it returns
Returned(c, op, t) ==
    CASE op.name = "get" -> OptGetResult(c, op.key, Ttl, t)
      [] op.name = "get_stats" -> OptStats(c, MaxSize)
      [] OTHER -> None

\* a task calls a method of the cache; it waits for the lock
ConcCall(t, op) ==
    /\ conc_task[t].pc \in {"idle", "done"}
    /\ conc_calls < MaxConcCalls
    /\ conc_calls' = conc_calls + 1
    /\ conc_task' = [conc_task EXCEPT ![t] =
           [NoConcCall EXCEPT !.pc = "lock", !.op = op,
                              !.contended = (conc_lock # None)]]
    /\ UNCHANGED <<now, cache_vars, limiter_vars, race_vars, bot_vars, lookup_vars, seed_vars, lock_vars,
                   extract_vars, request_vars, conc_cache, conc_lock, lin_cache,
                   since_clear>>

\* the task takes the lock and runs the method up to its first await: get up to
\* `await self._remove_entry(key)` or to its return, set up to
\* `await self._evict_lru()` or to its end, clear and get_stats to their end
ConcEnter(t) ==
    LET op == conc_task[t].op
        expired == /\ op.name = "get"
                   /\ op.key \in DOMAIN conc_cache.cache
                   /\ Expired(conc_cache.cache[op.key], Ttl, now)
        full == /\ op.name = "set"
                /\ Cardinality(DOMAIN conc_cache.cache) >= MaxSize
        suspends == expired \/ full
    IN  /\ conc_task[t].pc = "lock"
        /\ CacheLockFree(conc_lock)
        /\ op.name = "get" => GetInBounds(conc_cache, op.key, Ttl)
        /\ op.name = "set" => Len(conc_cache.access_order) < MaxOrderLen
        /\ lin_cache' = Applied(lin_cache, op, now)
        /\ since_clear' = CASE op.name = "set" -> since_clear \cup {op.key}
                             [] op.name = "clear" -> {}
                             [] OTHER -> since_clear
        /\ conc_cache' = IF suspends THEN conc_cache ELSE Applied(conc_cache, op, now)
        /\ conc_lock' = IF suspends THEN t ELSE conc_lock
        /\ conc_task' = [conc_task EXCEPT
               ![t].pc = IF expired THEN "remove" ELSE IF full THEN "evict" ELSE "done",
               ![t].t = now,
               ![t].suspended = suspends,
               ![t].expected = Returned(lin_cache, op, now),
               ![t].ret = IF suspends THEN None ELSE Returned(conc_cache, op, now)]
        /\ UNCHANGED <<now, cache_vars, limiter_vars, race_vars, bot_vars, lookup_vars, seed_vars, lock_vars,
                       extract_vars, request_vars, conc_calls>>

\* get: await self._remove_entry(key); return None; the lock is released
ConcRemove(t) ==
    /\ conc_task[t].pc = "remove"
    /\ conc_cache' = RemoveEntry(conc_cache, conc_task[t].op.key)
    /\ conc_lock' = None
    /\ conc_task' = [conc_task EXCEPT ![t].pc = "done", ![t].ret = None]
    /\ UNCHANGED <<now, cache_vars, limiter_vars, race_vars, bot_vars, lookup_vars, seed_vars, lock_vars,
                   extract_vars, request_vars, conc_calls, lin_cache, since_clear>>

\* set: await self._evict_lru(), then the new entry, stamped with the time read
\* at the start of set; the lock is released
ConcEvict(t) ==
    LET op == conc_task[t].op
        evicted == EvictLru(conc_cache)
    IN  /\ conc_task[t].pc = "evict"
        /\ conc_cache' =
               [cache |-> DictPut(evicted.cache, op.key,
                                  CacheEntry(op.value, conc_task[t].t, 1, conc_task[t].t)),
                access_order |-> Append(evicted.access_order, op.key)]
        /\ conc_lock' = None
        /\ conc_task' = [conc_task EXCEPT ![t].pc = "done", ![t].ret = None]
        /\ UNCHANGED <<now, cache_vars, limiter_vars, race_vars, bot_vars, lookup_vars, seed_vars, lock_vars,
                       extract_vars, request_vars, conc_calls, lin_cache, since_clear>>

TickConc ==
    /\ now < MaxTime
    /\ now' = now + 1
    /\ UNCHANGED <<cache_vars, limiter_vars, race_vars, bot_vars, lookup_vars, seed_vars, lock_vars,
                   extract_vars, request_vars, conc_vars>>

NextConc ==
    \/ \E t \in Tasks, op \in ConcOps : ConcCall(t, op)
    \/ \E t \in Tasks : ConcEnter(t)
    \/ \E t \in Tasks : ConcRemove(t)
    \/ \E t \in Tasks : ConcEvict(t)
    \/ TickConc

----------------------------------------------------------------------------
(* Seeds and audio features of a recommendation request:                     *)
(* OptimizedSpotifyAPI._build_recommendation_params, _extract_seeds and      *)
(* _get_audio_features_from_keywords (optimized_discord_bot.py), and the     *)
(* same step of EnhancedSpotifyAPI.get_recommendations (discord_music_bot.py). *)
(* Keywords, table words and genres are sequences of characters; 0.8 is      *)
(* Ratio(8, 10).                                                             *)

MaxKeywords == 6

\* the keywords requests are built from:
\* "Rock", "pop-rock", "energetic", "party", "calm", "Happy", "sad"
SeedKeywords ==
    { <<"R", "o", "c", "k">>,
      <<"p", "o", "p", "-", "r", "o", "c", "k">>,
      <<"e", "n", "e", "r", "g", "e", "t", "i", "c">>,
      <<"p", "a", "r", "t", "y">>,
      <<"c", "a", "l", "m">>,
      <<"H", "a", "p", "p", "y">>,
      <<"s", "a", "d">> }

RECURSIVE SeedKeywordLists(_)
\* the lists of at most n different keywords
SeedKeywordLists(n) ==
    IF n = 0 THEN {<<>>}
    ELSE LET shorter == SeedKeywordLists(n - 1)
         IN  shorter \cup
             {Append(p[1], p[2]) :
                 p \in {q \in shorter \X SeedKeywords :
                           Len(q[1]) = n - 1 /\ ~InSeq(q[1], q[2])}}

\* genre_mappings, in the order of the dict literal
genre_mappings ==
    << [word |-> <<"r", "o", "c", "k">>, genre |-> <<"r", "o", "c", "k">>],
       [word |-> <<"p", "o", "p">>, genre |-> <<"p", "o", "p">>],
       [word |-> <<"j", "a", "z", "z">>, genre |-> <<"j", "a", "z", "z">>],
       [word |-> <<"c", "l", "a", "s", "s", "i", "c", "a", "l">>,
        genre |-> <<"c", "l", "a", "s", "s", "i", "c", "a", "l">>],
       [word |-> <<"e", "l", "e", "c", "t", "r", "o", "n", "i", "c">>,
        genre |-> <<"e", "l", "e", "c", "t", "r", "o", "n", "i", "c">>],
       [word |-> <<"h", "i", "p", "-", "h", "o", "p">>, genre |-> <<"h", "i", "p", "-", "h", "o", "p">>],
       [word |-> <<"r", "a", "p">>, genre |-> <<"h", "i", "p", "-", "h", "o", "p">>],
       [word |-> <<"c", "o", "u", "n", "t", "r", "y">>, genre |-> <<"c", "o", "u", "n", "t", "r", "y">>],
       [word |-> <<"b", "l", "u", "e", "s">>, genre |-> <<"b", "l", "u", "e", "s">>],
       [word |-> <<"r", "e", "g", "g", "a", "e">>, genre |-> <<"r", "e", "g", "g", "a", "e">>],
       [word |-> <<"f", "o", "l", "k">>, genre |-> <<"f", "o", "l", "k">>],
       [word |-> <<"m", "e", "t", "a", "l">>, genre |-> <<"m", "e", "t", "a", "l">>],
       [word |-> <<"p", "u", "n", "k">>, genre |-> <<"p", "u", "n", "k">>],
       [word |-> <<"i", "n", "d", "i", "e">>, genre |-> <<"i", "n", "d", "i", "e">>],
       [word |-> <<"a", "l", "t", "e", "r", "n", "a", "t", "i", "v", "e">>,
        genre |-> <<"a", "l", "t", "e", "r", "n", "a", "t", "i", "v", "e">>],
       [word |-> <<"r", "&", "b">>, genre |-> <<"r", "-", "n", "-", "b">>],
       [word |-> <<"s", "o", "u", "l">>, genre |-> <<"s", "o", "u", "l">>],
       [word |-> <<"f", "u", "n", "k">>, genre |-> <<"f", "u", "n", "k">>],
       [word |-> <<"d", "i", "s", "c", "o">>, genre |-> <<"d", "i", "s", "c", "o">>],
       [word |-> <<"h", "o", "u", "s", "e">>, genre |-> <<"h", "o", "u", "s", "e">>],
       [word |-> <<"t", "e", "c", "h", "n", "o">>, genre |-> <<"t", "e", "c", "h", "n", "o">>],
       [word |-> <<"t", "r", "a", "n", "c", "e">>, genre |-> <<"t", "r", "a", "n", "c", "e">>],
       [word |-> <<"a", "m", "b", "i", "e", "n", "t">>, genre |-> <<"a", "m", "b", "i", "e", "n", "t">>],
       [word |-> <<"l", "o", "f", "i">>, genre |-> <<"l", "o", "f", "i">>],
       [word |-> <<"c", "h", "i", "l", "l">>, genre |-> <<"c", "h", "i", "l", "l">>],
       [word |-> <<"e", "n", "e", "r", "g", "e", "t", "i", "c">>, genre |-> <<"d", "a", "n", "c", "e">>],
       [word |-> <<"p", "a", "r", "t", "y">>, genre |-> <<"d", "a", "n", "c", "e">>],
       [word |-> <<"r", "o", "m", "a", "n", "t", "i", "c">>, genre |-> <<"r", "o", "m", "a", "n", "c", "e">>],
       [word |-> <<"s", "a", "d">>, genre |-> <<"s", "a", "d">>],
       [word |-> <<"h", "a", "p", "p", "y">>, genre |-> <<"h", "a", "p", "p", "y">>],
       [word |-> <<"c", "a", "l", "m">>, genre |-> <<"c", "a", "l", "m">>],
       [word |-> <<"r", "e", "l", "a", "x", "i", "n", "g">>, genre |-> <<"r", "e", "l", "a", "x", "i", "n", "g">>] >>

TakesMutAnyGenre(keyword_lower, seed_genres, entry) ==
    Contains(keyword_lower, entry.word)

\* word in keyword_lower and genre not in seed_genres
Takes(keyword_lower, seed_genres, entry) ==
    Contains(keyword_lower, entry.word) /\ ~InSeq(seed_genres, entry.genre)

\* for word, genre in genre_mappings.items(): the loop appends the genre of the
\* first entry its test accepts and breaks
ScanMappings(keyword_lower, seed_genres) ==
    LET accepted == {i \in 1..Len(genre_mappings) :
                        Takes(keyword_lower, seed_genres, genre_mappings[i])}
    IN  IF accepted = {} THEN seed_genres
        ELSE Append(seed_genres,
                    genre_mappings[CHOOSE i \in accepted : \A j \in accepted : i <= j].genre)

RECURSIVE SeedGenres(_, _)
\* for keyword in keywords: seed_genres after the first n keywords
SeedGenres(keywords, n) ==
    IF n = 0 THEN <<>>
    ELSE ScanMappings(Lower(keywords[n]), SeedGenres(keywords, n - 1))

\* seed_genres[:5]
SeedLimit == 5

\* _extract_seeds: seed_genres[:5], [], []
ExtractSeeds(keywords) ==
    <<FirstN(SeedGenres(keywords, Len(keywords)), SeedLimit), <<>>, <<>>>>

high_energy_words ==
    << <<"e", "n", "e", "r", "g", "e", "t", "i", "c">>,
       <<"u", "p", "b", "e", "a", "t">>,
       <<"f", "a", "s", "t">>,
       <<"d", "a", "n", "c", "e">>,
       <<"p", "a", "r", "t", "y">>,
       <<"w", "o", "r", "k", "o", "u", "t">> >>

low_energy_words ==
    << <<"c", "a", "l", "m">>,
       <<"r", "e", "l", "a", "x", "i", "n", "g">>,
       <<"c", "h", "i", "l", "l">>,
       <<"s", "l", "e", "e", "p">>,
       <<"s", "t", "u", "d", "y">> >>

high_valence_words ==
    << <<"h", "a", "p", "p", "y">>,
       <<"j", "o", "y", "f", "u", "l">>,
       <<"c", "h", "e", "e", "r", "f", "u", "l">>,
       <<"u", "p", "b", "e", "a", "t">> >>

low_valence_words ==
    << <<"s", "a", "d">>,
       <<"m", "e", "l", "a", "n", "c", "h", "o", "l", "y">>,
       <<"d", "e", "p", "r", "e", "s", "s", "i", "n", "g">> >>

high_tempo_words ==
    << <<"f", "a", "s", "t">>,
       <<"e", "n", "e", "r", "g", "e", "t", "i", "c">>,
       <<"w", "o", "r", "k", "o", "u", "t">>,
       <<"d", "a", "n", "c", "e">> >>

low_tempo_words ==
    << <<"s", "l", "o", "w">>,
       <<"c", "a", "l", "m">>,
       <<"r", "e", "l", "a", "x", "i", "n", "g">> >>

\* [k.lower() for k in keywords]
LowerAll(keywords) == [i \in 1..Len(keywords) |-> Lower(keywords[i])]

\* any(word in keywords_lower for word in words)
AnyIn(words, keywords_lower) ==
    \E i \in 1..Len(words) : InSeq(keywords_lower, words[i])

\* features[target] = ...; features[bound] = ...
WithFeature(features, target, target_value, bound, bound_value) ==
    DictPut(DictPut(features, target, target_value), bound, bound_value)

EnergyMappingMutBoth(features, keywords_lower) ==
    LET high == IF AnyIn(high_energy_words, keywords_lower)
                THEN WithFeature(features, "target_energy", Ratio(8, 10), "min_energy", Ratio(6, 10))
                ELSE features
    IN  IF AnyIn(low_energy_words, keywords_lower)
        THEN WithFeature(high, "target_energy", Ratio(3, 10), "max_energy", Ratio(5, 10))
        ELSE high

\* Energy mapping
EnergyMapping(features, keywords_lower) ==
    IF AnyIn(high_energy_words, keywords_lower)
    THEN WithFeature(features, "target_energy", Ratio(8, 10), "min_energy", Ratio(6, 10))
    ELSE IF AnyIn(low_energy_words, keywords_lower)
    THEN WithFeature(features, "target_energy", Ratio(3, 10), "max_energy", Ratio(5, 10))
    ELSE features

\* Valence mapping
ValenceMapping(features, keywords_lower) ==
    IF AnyIn(high_valence_words, keywords_lower)
    THEN WithFeature(features, "target_valence", Ratio(8, 10), "min_valence", Ratio(6, 10))
    ELSE IF AnyIn(low_valence_words, keywords_lower)
    THEN WithFeature(features, "target_valence", Ratio(3, 10), "max_valence", Ratio(5, 10))
    ELSE features

\* Tempo mapping (EnhancedSpotifyAPI)
TempoMapping(features, keywords_lower) ==
    IF AnyIn(high_tempo_words, keywords_lower)
    THEN WithFeature(features, "target_tempo", Ratio(140, 1), "min_tempo", Ratio(120, 1))
    ELSE IF AnyIn(low_tempo_words, keywords_lower)
    THEN WithFeature(features, "target_tempo", Ratio(80, 1), "max_tempo", Ratio(100, 1))
    ELSE features

\* OptimizedSpotifyAPI._get_audio_features_from_keywords
GetAudioFeaturesFromKeywords(keywords) ==
    LET keywords_lower == LowerAll(keywords)
    IN  ValenceMapping(EnergyMapping(EmptyDict, keywords_lower), keywords_lower)

\* EnhancedSpotifyAPI._get_audio_features_from_keywords
EnhancedGetAudioFeaturesFromKeywords(keywords) ==
    LET keywords_lower == LowerAll(keywords)
    IN  TempoMapping(ValenceMapping(EnergyMapping(EmptyDict, keywords_lower), keywords_lower),
                     keywords_lower)

\* params: limit, market, the seed entries that are set, and the audio features
\* params.update() adds
RecommendationParams(seeds, audio_features) ==
    [limit |-> 5,
     market |-> "US",
     seeds |-> IF Len(seeds[1]) > 0
               THEN DictPut(EmptyDict, "seed_genres", Joined(FirstN(seeds[1], SeedLimit)))
               ELSE EmptyDict,
     features |-> audio_features]

SeedCall(api, seeds, audio_features) ==
    [api |-> api,
     seed_genres |-> seeds[1],
     audio_features |-> audio_features,
     params |-> RecommendationParams(seeds, audio_features)]

NoSeedCall == SeedCall(None, <<<<>>, <<>>, <<>>>>, EmptyDict)

InitSeeds ==
    /\ seed_keywords \in SeedKeywordLists(MaxKeywords)
    /\ seed_call = NoSeedCall

NoSeeds ==
    /\ seed_keywords = <<>>
    /\ seed_call = NoSeedCall

\* OptimizedSpotifyAPI._build_recommendation_params(keywords, access_token)
BuildRecommendationParams ==
    /\ seed_call' = SeedCall("OptimizedSpotifyAPI", ExtractSeeds(seed_keywords),
                             GetAudioFeaturesFromKeywords(seed_keywords))
    /\ UNCHANGED <<now, cache_vars, limiter_vars, race_vars, bot_vars, lookup_vars,
                   request_vars, extract_vars, conc_vars, lock_vars, seed_keywords>>

\* EnhancedSpotifyAPI.get_recommendations: the seeds and the params of its request
EnhancedBuildParams ==
    /\ seed_call' = SeedCall("EnhancedSpotifyAPI", ExtractSeeds(seed_keywords),
                             EnhancedGetAudioFeaturesFromKeywords(seed_keywords))
    /\ UNCHANGED <<now, cache_vars, limiter_vars, race_vars, bot_vars, lookup_vars,
                   request_vars, extract_vars, conc_vars, lock_vars, seed_keywords>>

NextSeeds ==
    \/ BuildRecommendationParams
    \/ EnhancedBuildParams

----------------------------------------------------------------------------
(* Specifications: one object under its calls, the others not constructed *)

NoCache ==
    /\ cache_class = None
    /\ optimized_cache = NewOptimizedCache
    /\ simple_cache = EmptyDict
    /\ cache_op = NoOp
    /\ shadow = EmptyDict

NoLimiter ==
    /\ limiter_class = None
    /\ burst_limit = 0
    /\ requests = [u \in Users |-> <<>>]
    /\ lim_op = NoLimOp
    /\ admitted = [u \in Users |-> <<>>]

InitAdvancedLimiter ==
    /\ limiter_class = "AdvancedRateLimiter"
    /\ burst_limit \in BurstLimits
    /\ requests = [u \in Users |-> <<>>]
    /\ lim_op = NoLimOp
    /\ admitted = [u \in Users |-> <<>>]

NoLookup ==
    /\ rec_cache = NewOptimizedCache
    /\ token_cache = NewOptimizedCache
    /\ token_lock = None
    /\ call = [c \in Callers |-> NoCall]
    /\ n_calls = 0
    /\ stored = EmptyDict

NoRequestClient ==
    /\ client = [session |-> FALSE, max_retries |-> 0, retry_delay |-> RetryDelay]
    /\ req = NoRequest

NoExtract == InitExtract

NoConc == InitConc

InitSpecCache == now = 0 /\ InitCache /\ NoLimiter /\ InitRace /\ NoBot /\ NoLookup
    /\ NoRequestClient /\ NoExtract /\ NoConc /\ NoCacheLocks /\ NoSeeds

SpecCache == InitSpecCache /\ [][NextCache]_vars

InitSpecLimiter == now = 0 /\ NoCache /\ InitLimiter /\ InitRace /\ NoBot /\ NoLookup
    /\ NoRequestClient /\ NoExtract /\ NoConc /\ NoCacheLocks /\ NoSeeds

SpecLimiter == InitSpecLimiter /\ [][NextLimiter]_vars

InitSpecRace == now = 0 /\ NoCache /\ InitAdvancedLimiter /\ InitRace /\ NoBot /\ NoLookup
    /\ NoRequestClient /\ NoExtract /\ NoConc /\ NoCacheLocks /\ NoSeeds

SpecRace == InitSpecRace /\ [][NextRace]_vars

\* one AdvancedRateLimiter called for two identities
InitSpecIdentities ==
    /\ now = 0 /\ NoCache /\ InitRace /\ NoBot /\ NoLookup
    /\ NoRequestClient /\ NoExtract /\ NoConc /\ NoCacheLocks /\ NoSeeds
    /\ limiter_class = "AdvancedRateLimiter"
    /\ burst_limit \in {MaxRequests - 1, MaxRequests + 1}
    /\ requests = [u \in RaceUsers |-> <<>>]
    /\ lim_op = NoLimOp
    /\ admitted = [u \in RaceUsers |-> <<>>]

SpecIdentities == InitSpecIdentities /\ [][NextIdentities]_vars

\* time.time() is far past the default user_cooldowns value 0.0
InitSpecBot ==
    now = Cooldown /\ NoCache /\ InitAdvancedLimiter /\ InitRace /\ InitBot /\ NoLookup
    /\ NoRequestClient /\ NoExtract /\ NoConc /\ NoCacheLocks /\ NoSeeds

SpecBot == InitSpecBot /\ [][NextBot]_vars

\* the timestamps of n earlier admissions of on_message, the last at the default
\* user_cooldowns value 0 and each Cooldown after the one before: the closest
\* the cooldown test lets admissions be
EarlierAdmissions(n) == [i \in 1..n |-> (i - n) * Cooldown]

\* on_message after earlier messages were answered: the limiter holds their
\* timestamps, as many as the burst check and the rate limit admitted
InitSpecRetry ==
    /\ now = Cooldown /\ NoCache /\ InitRace /\ InitBot /\ NoLookup
    /\ NoRequestClient /\ NoExtract /\ NoConc /\ NoCacheLocks /\ NoSeeds
    /\ limiter_class = "AdvancedRateLimiter"
    /\ burst_limit \in BurstLimits
    /\ \E n \in 0..MaxRequests :
        /\ n <= burst_limit
        /\ requests = [u \in Users |-> EarlierAdmissions(n)]
    /\ lim_op = NoLimOp
    /\ admitted = [u \in Users |-> <<>>]

SpecRetry == InitSpecRetry /\ [][NextBot]_vars

InitSpecLookup == now = 0 /\ NoCache /\ NoLimiter /\ InitRace /\ NoBot /\ InitLookup
    /\ NoRequestClient /\ NoExtract /\ NoConc /\ NoCacheLocks /\ NoSeeds

SpecLookup == InitSpecLookup /\ [][NextLookup]_vars

InitSpecRequest ==
    now = 0 /\ NoCache /\ NoLimiter /\ InitRace /\ NoBot /\ NoLookup
    /\ InitRequest /\ NoExtract /\ NoConc /\ NoCacheLocks /\ NoSeeds

SpecRequest == InitSpecRequest /\ [][NextRequest]_vars

InitSpecExtract ==
    now = 0 /\ NoCache /\ NoLimiter /\ InitRace /\ NoBot /\ NoLookup
    /\ NoRequestClient /\ InitExtract /\ NoConc /\ NoCacheLocks /\ NoSeeds

SpecExtract == InitSpecExtract /\ [][NextExtract]_vars

\* the two APIs of one bot, each with its cache; a behaviour drives one of them
InitSpecApis ==
    now = 0 /\ NoCache /\ NoLimiter /\ InitRace /\ NoBot /\ InitLookup
    /\ NoRequestClient /\ InitExtract /\ NoConc /\ NoCacheLocks /\ NoSeeds

NextApis ==
    \/ InitExtract /\ NextLookup
    \/ InitLookup /\ NextExtract

SpecApis == InitSpecApis /\ [][NextApis]_vars

InitSpecConc ==
    now = 0 /\ NoCache /\ NoLimiter /\ InitRace /\ NoBot /\ NoLookup
    /\ NoRequestClient /\ NoExtract /\ InitConc /\ NoCacheLocks /\ NoSeeds

SpecConc == InitSpecConc /\ [][NextConc]_vars

\* the params of one request, built by either API from a list of keywords
InitSpecSeeds ==
    now = 0 /\ NoCache /\ NoLimiter /\ InitRace /\ NoBot /\ NoLookup
    /\ NoRequestClient /\ NoExtract /\ NoConc /\ NoCacheLocks /\ InitSeeds

SpecSeeds == InitSpecSeeds /\ [][NextSeeds]_vars

----------------------------------------------------------------------------
(* Claims about the caches, checked under SpecCache *)

\* C1: the number of entries in the OptimizedCache mapping never exceeds
\* max_size, after any sequence of set, get and clear calls.
C1_SizeWithinCapacity ==
    Cardinality(DOMAIN optimized_cache.cache) <= MaxSize

\* the keys whose last successful access is the oldest among the entries present
OldestAccessed(d) ==
    {e \in DOMAIN d : \A k \in DOMAIN d : d[e].last_accessed <= d[k].last_accessed}

\* C2: a set of an absent key into a full OptimizedCache evicts exactly the
\* entry whose last successful access (get hit or set) is the oldest.
C2_EvictsLeastRecentlyUsed ==
    [][\A kv \in SetInputs :
          (/\ OptSet(kv[1], kv[2])
           /\ kv[1] \notin DOMAIN optimized_cache.cache
           /\ Cardinality(DOMAIN optimized_cache.cache) >= MaxSize)
          => \E e \in OldestAccessed(optimized_cache.cache) :
                DOMAIN optimized_cache'.cache =
                    (DOMAIN optimized_cache.cache \ {e}) \cup {kv[1]}]_vars

\* C7: a set of a key that is already present removes no key from the
\* OptimizedCache mapping, also when the cache holds max_size entries.
C7_OverwriteEvictsNothing ==
    [][\A kv \in SetInputs :
          (OptSet(kv[1], kv[2]) /\ kv[1] \in DOMAIN optimized_cache.cache)
          => DOMAIN optimized_cache.cache \subseteq DOMAIN optimized_cache'.cache]_vars

\* C8: a get of an entry strictly more than ttl after its last set returns
\* None and deletes the entry (Cache and OptimizedCache); OptimizedCache.get
\* of an entry of age at most ttl returns the value of that last set and
\* leaves the entry's creation timestamp at the time of that set.
C8_ExpiryOnRead ==
    (cache_op.op = "get" /\ cache_op.age >= 0) =>
        IF cache_op.age > Ttl
        THEN /\ cache_op.ret = None
             /\ cache_op.key \notin DOMAIN optimized_cache.cache
             /\ cache_op.key \notin DOMAIN simple_cache
        ELSE cache_class = "OptimizedCache" =>
             /\ cache_op.key \in DOMAIN optimized_cache.cache
             /\ cache_op.ret = shadow[cache_op.key].value
             /\ optimized_cache.cache[cache_op.key].timestamp = shadow[cache_op.key].set_at

\* an OptimizedCache entry was read after its ttl had elapsed, and one of a
\* Cache likewise
C8_Witness ==
    /\ cache_op.op = "get"
    /\ cache_op.age > Ttl
    /\ cache_op.ret = None
    /\ cache_class = "OptimizedCache"
    /\ optimized_cache.cache # EmptyDict

----------------------------------------------------------------------------
(* Claims about the limiters, checked under SpecLimiter *)

\* the timestamps admitted for the user of the last call before that call
AdmittedBefore ==
    LET a == admitted[lim_op.user]
    IN  IF lim_op.ret THEN SubSeq(a, 1, Len(a) - 1) ELSE a

\* the earlier admissions less than window seconds before the last call
InsideWindow == SelectSeq(AdmittedBefore, LAMBDA a : lim_op.t - a < Window)

\* the earlier admissions the window still covers at the last call (t >= now - window)
HeldInWindow == SelectSeq(AdmittedBefore, LAMBDA a : lim_op.t - a <= Window)

\* the first max_requests calls made inside one window return true
FirstCallsAdmitted ==
    (/\ ~lim_op.burst
     /\ InsideWindow = AdmittedBefore
     /\ Len(AdmittedBefore) < MaxRequests) => lim_op.ret

\* the next call inside that window returns false
NextCallRejected ==
    Len(InsideWindow) >= MaxRequests => ~lim_op.ret

\* every earlier admission of the user is at least d seconds old at the last call
AllElapsed(d) ==
    /\ AdmittedBefore # <<>>
    /\ \A i \in 1..Len(AdmittedBefore) : lim_op.t - AdmittedBefore[i] >= d

\* C3 as stated: for one identity the first max_requests calls inside one
\* window return true, the next call inside that window returns false, and a
\* call made once window seconds have elapsed since those admissions returns
\* true again (burst check not triggering).
C3_AdmitAgainAtWindow ==
    lim_op.op = "is_allowed" =>
        /\ FirstCallsAdmitted
        /\ NextCallRejected
        /\ (AllElapsed(Window) /\ ~lim_op.burst) => lim_op.ret

\* C3 as amended: the same, but AdvancedRateLimiter admits again only once
\* MORE than window seconds have elapsed since those admissions (RateLimiter
\* once window seconds have elapsed).
C3_AdmitAgainAfterWindow ==
    lim_op.op = "is_allowed" =>
        /\ FirstCallsAdmitted
        /\ NextCallRejected
        /\ (/\ AllElapsed(IF limiter_class = "RateLimiter" THEN Window ELSE Window + 1)
            /\ ~lim_op.burst) => lim_op.ret

\* max_requests calls were admitted in the past and, the window having
\* elapsed, the last call was admitted again
C3_Witness ==
    /\ lim_op.op = "is_allowed"
    /\ limiter_class = "AdvancedRateLimiter"
    /\ Len(AdmittedBefore) = MaxRequests
    /\ AllElapsed(Window + 1)
    /\ lim_op.ret

\* C9: AdvancedRateLimiter never admits, for one identity, more than
\* burst_limit requests inside an interval of burst-window length: any
\* burst_limit + 1 admissions span at least the burst window.
C9_BurstBound ==
    limiter_class = "AdvancedRateLimiter" =>
        \A u \in Users :
            \A i \in 1..(Len(admitted[u]) - burst_limit) :
                admitted[u][i + burst_limit] - admitted[u][i] >= BurstWindow

\* C10: when the identity holds at least burst_limit timestamps in the window
\* and the oldest of them is less than 10 s old, is_allowed returns false,
\* whatever max_requests, and appends no timestamp: the stored timestamps are
\* those held before and get_remaining is what it was.
C10_BurstRejects ==
    (lim_op.op = "is_allowed" /\ limiter_class = "AdvancedRateLimiter") =>
        ((/\ Len(HeldInWindow) >= burst_limit
          /\ lim_op.t - HeldInWindow[1] < BurstWindow)
         => /\ ~lim_op.ret
            /\ requests[lim_op.user] = HeldInWindow
            /\ Remaining(requests[lim_op.user], MaxRequests)
                   = Max0(MaxRequests - Len(HeldInWindow)))

\* a call was rejected by the burst check with max_requests not reached
C10_Witness ==
    /\ lim_op.op = "is_allowed"
    /\ limiter_class = "AdvancedRateLimiter"
    /\ ~lim_op.ret
    /\ Len(HeldInWindow) >= burst_limit
    /\ lim_op.t - HeldInWindow[1] < BurstWindow
    /\ Len(requests[lim_op.user]) < MaxRequests
    /\ burst_limit = 2

----------------------------------------------------------------------------
(* Claim about concurrent is_allowed calls, checked under SpecRace *)

\* C4: when exactly one slot remains for an identity, two concurrent
\* is_allowed calls for that identity never both return true.
C4_OneSlotOneAdmission ==
    (race_slots = 1 /\ \A t \in Tasks : pc[t] = "returned")
        => ~(\A t \in Tasks : task_ret[t])

\* two overlapping calls met one free slot: one was admitted, the other not
C4_Witness ==
    /\ race_slots = 1
    /\ \A t \in Tasks : pc[t] = "returned"
    /\ task_ret["t2"]
    /\ ~task_ret["t1"]
    /\ decision["t1"] = "limit"

\* C14: for every identity the timestamps AdvancedRateLimiter stores are never
\* more than max_requests, are in non-decreasing order, and right after an
\* is_allowed, get_remaining or get_user_stats call for the identity, made at
\* time t, each of them is >= t - window.
C14_StoredTimestamps ==
    limiter_class = "AdvancedRateLimiter" =>
        \A u \in Users :
            /\ Len(requests[u]) <= MaxRequests
            /\ \A i \in 1..(Len(requests[u]) - 1) : requests[u][i] <= requests[u][i + 1]
            /\ (lim_op.op # "none" /\ lim_op.user = u) =>
                  \A i \in 1..Len(requests[u]) : requests[u][i] >= lim_op.t - Window

C14_Witness ==
    /\ limiter_class = "AdvancedRateLimiter"
    /\ lim_op.op = "get_remaining"
    /\ Len(requests[lim_op.user]) = MaxRequests - 1
    /\ Len(admitted[lim_op.user]) > MaxRequests
    /\ lim_op.t - requests[lim_op.user][1] = Window

----------------------------------------------------------------------------
(* Claims about on_message, checked under SpecBot *)

\* C5: every non-bot, non-command message handed to on_message ends with exactly
\* one outcome reply delivered to its sender: none is dropped silently, none is
\* answered twice.
C5_ExactlyOneReply == \A m \in Msgs : Ended(m) => Len(replies[m]) = 1

Last(seq) == seq[Len(seq)]

\* C11: a collaborator call (extraction or lookup) is made for a message only
\* after is_allowed admitted the message, and the admission appended the current
\* time to the sender's timestamps; a message the limiter never admitted (a
\* rejected one included) gets no collaborator call, hence no cache access.
C11_AdmissionBeforeCalls ==
    [][\A m \in Msgs :
        /\ calls'[m] # calls[m] => admitted_at[m] >= 0
        /\ admitted_at'[m] # admitted_at[m] =>
              /\ admitted_at'[m] = now
              /\ calls[m] = <<>>
              /\ requests'[Author(m)] # <<>>
              /\ Last(requests'[Author(m)]) = now
        /\ msg_pc'[m] = "reply_rate_limited" => calls'[m] = <<>> /\ admitted_at'[m] = -1
      ]_vars

C11_Witness ==
    \E m1, m2 \in Msgs :
        /\ Len(calls[m1]) = 2 /\ admitted_at[m1] >= 0
        /\ replies[m2] = <<"RateLimited">> /\ calls[m2] = <<>> /\ admitted_at[m2] = -1

InFlightMsg(m) == msg_pc[m] \notin {"pending", "ignored", "dropped", "returned", "raised"}

\* C12: user_stats[identity] counts exactly the messages of that identity that
\* ended in Success; no other outcome changes it (read when no message of the
\* identity is in flight).
C12_StatsCountSuccesses ==
    \A u \in Users :
        (\A m \in Msgs : Author(m) = u => ~InFlightMsg(m)) =>
            user_stats[u] =
                Cardinality({m \in Msgs : Author(m) = u /\ InSeq(replies[m], "Success")})

FailedKind(m) ==
    IF calls[m] # <<>> /\ Last(calls[m]).result \in ErrorKinds
    THEN Last(calls[m]).result ELSE None

\* C17: a message whose collaborator call failed ends in a Failed reply that
\* tells the kind of the failure: two messages answered Failed after failures
\* of different kinds are answered differently.
C17_FailedCarriesErrorKind ==
    \A m1, m2 \in Msgs :
        ( /\ FailedKind(m1) # None /\ msg_pc[m1] = "returned"
          /\ FailedKind(m2) # None /\ msg_pc[m2] = "returned"
          /\ FailedKind(m1) # FailedKind(m2) ) =>
            replies[m1] # replies[m2]

\* C19: the lookup is called only as the second call, after an extraction that
\* returned a non-empty keyword list; after an empty extraction no lookup is
\* called and the reply chosen is NoKeywords; after an empty lookup result the
\* reply chosen is NoResults, never Success (Failed replaces a reply that could
\* not be sent).
C19_ExtractThenLookup ==
    \A m \in Msgs :
        LET cs == calls[m]
            chosen == IF msg_pc[m] = "returned" /\ ~InSeq(replies[m], "Failed")
                      THEN replies[m] ELSE <<>>
        IN  /\ cs # <<>> => cs[1].call = "extract"
            /\ \A i \in 1..Len(cs) :
                  cs[i].call = "lookup" => i = 2 /\ cs[1].result = "[keyword]"
            /\ (cs # <<>> /\ cs[1].result = "[]") =>
                  /\ Len(cs) = 1
                  /\ msg_pc[m] \in {"reply_no_keywords", "reply_failed", "returned", "raised"}
                  /\ chosen \in {<<>>, <<"NoKeywords">>}
                  /\ msg_pc[m] = "returned" => replies[m] \in {<<"NoKeywords">>, <<"Failed">>}
            /\ (Len(cs) = 2 /\ cs[2].result = "[]") =>
                  /\ msg_pc[m] \in {"reply_no_results", "reply_failed", "returned", "raised"}
                  /\ ~InSeq(replies[m], "Success")
                  /\ msg_pc[m] = "returned" => replies[m] \in {<<"NoResults">>, <<"Failed">>}
            /\ InSeq(replies[m], "Success") => Len(cs) = 2 /\ cs[2].result = "[track]"

C19_Witness ==
    \E m1, m2 \in Msgs :
        /\ replies[m1] = <<"NoKeywords">> /\ Len(calls[m1]) = 1
        /\ replies[m2] = <<"NoResults">> /\ Len(calls[m2]) = 2

----------------------------------------------------------------------------
(* Claims about get_recommendations, checked under SpecLookup *)

\* C6: a get_recommendations call whose keywords equal, up to order, those of a
\* call that completed successfully (an empty track list included), made within
\* the ttl of the stored result and with no eviction or clear since, is served
\* from the cache: it returns the stored result and sends neither a
\* recommendations request nor a token request.
C6_SecondCallFromCache ==
    \A c \in Callers :
        (call[c].pc # "idle" /\ call[c].expected # None) =>
            /\ call[c].lookups = 0
            /\ call[c].tokens = 0
            /\ call[c].pc \in {"returned", "raised"} =>
                   call[c].pc = "returned" /\ call[c].ret = call[c].expected

CountOf(seq, x) == Cardinality({i \in 1..Len(seq) : seq[i] = x})

IsPermutation(a, b) ==
    /\ Len(a) = Len(b)
    /\ \A i \in 1..Len(a) : CountOf(a, a[i]) = CountOf(b, a[i])

\* C20: two get_recommendations calls whose keyword lists are permutations of
\* each other compute the same cache key, whenever and in whatever state of the
\* caches each call was made: the key depends on the keyword list only.
C20_KeyOfPermutations ==
    \A c1, c2 \in Callers :
        ( /\ call[c1].pc # "idle" /\ call[c2].pc # "idle"
          /\ IsPermutation(call[c1].keywords, call[c2].keywords) ) =>
            call[c1].key = call[c2].key

C20_Witness ==
    /\ call["c1"].pc # "idle" /\ call["c2"].pc # "idle"
    /\ call["c1"].keywords = << <<"a">>, <<"b">> >>
    /\ call["c2"].keywords = << <<"b">>, <<"a">> >>
    /\ call["c1"].key = call["c2"].key
    /\ call["c1"].pc = "returned" /\ call["c2"].pc = "returned"

----------------------------------------------------------------------------
(* Claims about SecureAPIClient.request, checked under SpecRequest *)

Retried(outcome) ==
    IF IsResponse(outcome) THEN outcome.status >= 500 ELSE outcome.error \in CaughtErrors

Over == req.pc \in {"returned", "raised"}

\* C16: request makes at most max_retries attempts and ends by returning a
\* response or raising; a response with status < 500 is returned at once, with
\* no further attempt; a 5xx response, a ClientError or a timeout is followed by
\* another attempt while attempts are left; once they are exhausted the last
\* 5xx response is returned or the last exception is raised.
C16_BoundedRetries ==
    LET n == Len(req.attempts) IN
    /\ n <= client.max_retries
    /\ \A i \in 1..(n - 1) : Retried(req.attempts[i])
    /\ ~Over => ENABLED NextRequest
    /\ (n > 0 /\ IsResponse(req.attempts[n]) /\ req.attempts[n].status < 500) =>
          req.pc = "returned" /\ req.result = req.attempts[n]
    /\ (n > 0 /\ Retried(req.attempts[n])) =>
          IF n < client.max_retries
          THEN ~Over
          ELSE /\ req.result = req.attempts[n]
               /\ req.pc = IF IsResponse(req.attempts[n]) THEN "returned" ELSE "raised"
    /\ req.pc = "returned" => n > 0 /\ IsResponse(req.result)

C16_Witness ==
    /\ client.max_retries = 3
    /\ req.attempts = <<Response(503), Raised("TimeoutError"), Response(500)>>
    /\ req.pc = "returned"
    /\ req.result = Response(500)

----------------------------------------------------------------------------
(* Claims about extract_music_keywords *)

StaticKeywords == mood_keywords \o genre_keywords \o activity_keywords

PositionOf(keyword) == CHOOSE i \in 1..Len(StaticKeywords) : StaticKeywords[i] = keyword

\* the extraction request of the call was answered with a failure: a status other
\* than 200, a network error or a timeout
ExtractionFailed ==
    /\ ext.requests = 1
    /\ ext.pc # "request"
    /\ ~ExtractOk(ext.response)
    /\ ext.response.error # "CancelledError"

\* C18: when the extraction request fails (non-200 status, network error, timeout)
\* extract_music_keywords does not raise: it returns at most 5 keywords, each one
\* of the static mood, genre and activity keywords and a substring of the
\* lower-cased message, in the order of the lists (mood, genre, activity).
C18_FallbackOnFailure ==
    ExtractionFailed =>
        /\ ext.pc = "returned"
        /\ Len(ext.ret) <= 5
        /\ \A i \in 1..Len(ext.ret) :
              /\ \E j \in 1..Len(StaticKeywords) : StaticKeywords[j] = ext.ret[i]
              /\ Contains(Lower(ext.message), ext.ret[i])
        /\ \A i, j \in 1..Len(ext.ret) :
              i < j => PositionOf(ext.ret[i]) < PositionOf(ext.ret[j])

\* a failed request for a message that holds six static keywords: the first
\* five came back
C18_Witness ==
    /\ ExtractionFailed
    /\ ext.pc = "returned"
    /\ Len(ext.ret) = 5
    /\ Len(SelectSeq(StaticKeywords,
                     LAMBDA keyword : Contains(Lower(ext.message), keyword))) = 6

\* the entry under key was written by the step: it is new, or its value or its
\* creation time changed, or its access count started again
Written(before, after, key) ==
    /\ key \in DOMAIN after.cache
    /\ \/ key \notin DOMAIN before.cache
       \/ after.cache[key].value # before.cache[key].value
       \/ after.cache[key].timestamp # before.cache[key].timestamp
       \/ after.cache[key].access_count < before.cache[key].access_count

\* the step is the answer to a collaborator request of caller c, and the call raises
LookupFails(c) ==
    /\ call[c].pc \in {"token_request", "lookup_request"}
    /\ call'[c].pc = "raised"

\* the step is the answer to the extraction request, and it is not a status 200
ExtractFails ==
    /\ ext.pc = "request"
    /\ ext'.pc # "request"
    /\ (ext'.response.error # None \/ ext'.response.status # 200)

\* C15: a collaborator call that fails, times out or is cancelled leaves the
\* recommendation cache and the extraction cache as they were when the request
\* was sent; an entry is written to either cache only by the step that parsed a
\* status-200 response, with the parsed value, and the fallback scan's keywords
\* are never written.
C15_FailureLeavesCaches ==
    [][ /\ \A c \in Callers : LookupFails(c) => rec_cache' = rec_cache
        /\ ExtractFails => ext_cache' = ext_cache
        /\ \A key \in DOMAIN rec_cache'.cache :
              Written(rec_cache, rec_cache', key) =>
                 \E c \in Callers : /\ call[c].pc = "lookup_request"
                                    /\ call'[c].pc = "returned"
                                    /\ call[c].key = key
                                    /\ call'[c].ret # "error"
                                    /\ rec_cache'.cache[key].value = call'[c].ret
        /\ \A key \in DOMAIN ext_cache'.cache :
              Written(ext_cache, ext_cache', key) =>
                 /\ ext.pc = "request"
                 /\ ext'.pc = "returned"
                 /\ ext'.response.error = None
                 /\ ext'.response.status = 200
                 /\ ext.key = key
                 /\ ext_cache'.cache[key].value = ParseKeywordsResponse(ext'.response)
      ]_vars

\* a failed extraction request answered with a non-empty fallback scan while the
\* extraction cache holds another message's keywords
C15_Witness ==
    /\ ext.pc = "returned"
    /\ ext.requests = 1
    /\ ext.response.error = "TimeoutError"
    /\ ext.ret # <<>>
    /\ ext_cache.cache # EmptyDict
    /\ ext.key \notin DOMAIN ext_cache.cache

\* a recommendations request that failed while the recommendation cache holds
\* the tracks of another keyword list
C15_WitnessLookup ==
    \E c \in Callers :
        /\ call[c].pc = "raised"
        /\ call[c].lookups = 1
        /\ rec_cache.cache # EmptyDict
        /\ call[c].key \notin DOMAIN rec_cache.cache

----------------------------------------------------------------------------
(* Claims about OptimizedCache under concurrent callers *)

\* the tasks suspended inside `async with self._lock`
InsideLock == {t \in Tasks : conc_task[t].pc \in {"remove", "evict"}}

\* C13: under any interleaving of concurrent get, set, clear and get_stats calls
\* on one OptimizedCache (the hourly clear of cleanup_cache among them) every
\* call takes effect atomically: at most one call is inside the lock, whenever
\* the lock is free the cache is what the calls leave when applied one at a
\* time in the order they took the lock, and every completed call returned
\* what it returns in that sequential order.
C13_Linearizable ==
    /\ Cardinality(InsideLock) <= 1
    /\ conc_lock = None => conc_cache = lin_cache
    /\ conc_lock # None => InsideLock = {conc_lock}
    /\ \A t \in Tasks : conc_task[t].pc = "done" => conc_task[t].ret = conc_task[t].expected

\* a set that was suspended at its eviction while the other task called clear:
\* both calls are over
C13_Witness ==
    \E t1, t2 \in Tasks :
        /\ conc_task[t1].pc = "done" /\ conc_task[t1].op.name = "set"
        /\ conc_task[t1].suspended
        /\ conc_task[t2].pc = "done" /\ conc_task[t2].op.name = "clear"
        /\ conc_task[t2].contended

----------------------------------------------------------------------------
(* Claims about the effect of single OptimizedCache and Cache calls *)

\* the step is a call of the named method that changed something
CacheCallStep(name) ==
    /\ cache_op'.op = name
    /\ now' = now
    /\ <<cache_op, optimized_cache, simple_cache>>' # <<cache_op, optimized_cache, simple_cache>>

\* C27: OptimizedCache.get(k) on a live entry adds exactly 1 to the entry's
\* access_count, sets its last_accessed to now and makes k the last element of
\* access_order; no other entry changes.  get on a key that is not in the
\* mapping changes nothing in the cache.
C27_GetTouchesOneEntry ==
    [][ (cache_class = "OptimizedCache" /\ CacheCallStep("get")) =>
          LET k == cache_op'.key
              before == optimized_cache.cache
              after == optimized_cache'.cache
          IN  /\ (k \in DOMAIN before /\ now - before[k].timestamp <= Ttl) =>
                    /\ DOMAIN after = DOMAIN before
                    /\ after[k].access_count = before[k].access_count + 1
                    /\ after[k].last_accessed = now
                    /\ after[k].value = before[k].value
                    /\ after[k].timestamp = before[k].timestamp
                    /\ \A other \in DOMAIN before \ {k} : after[other] = before[other]
                    /\ optimized_cache'.access_order # <<>>
                    /\ Last(optimized_cache'.access_order) = k
              /\ k \notin DOMAIN before => optimized_cache' = optimized_cache
      ]_vars

\* a hit on one of two entries, some seconds after the entry was stored
C27_Witness ==
    /\ cache_class = "OptimizedCache"
    /\ cache_op.op = "get"
    /\ cache_op.ret # None
    /\ cache_op.age > 0
    /\ Cardinality(DOMAIN optimized_cache.cache) = 2
    /\ optimized_cache.cache[cache_op.key].access_count = 2
    /\ optimized_cache.cache[cache_op.key].last_accessed = now
    /\ optimized_cache.access_order[1] # cache_op.key

\* sum(entry.access_count for entry in self.cache.values()), from the mapping
RECURSIVE SumOfCounts(_, _)
SumOfCounts(d, keys) ==
    IF keys = {} THEN 0
    ELSE LET k == CHOOSE x \in keys : TRUE
         IN  d[k].access_count + SumOfCounts(d, keys \ {k})

\* C28: set(k, v) stores an entry with timestamp = last_accessed = now and
\* access_count = 1, also when k was in the mapping; a get(k) that follows the
\* set with no call in between, before ttl seconds have passed, returns v.  The
\* round trip holds for Cache as well.
C28_SetThenGet ==
    [][ /\ (cache_class = "OptimizedCache" /\ CacheCallStep("set")) =>
              LET k == cache_op'.key
              IN  /\ k \in DOMAIN optimized_cache'.cache
                  /\ optimized_cache'.cache[k].timestamp = now
                  /\ optimized_cache'.cache[k].last_accessed = now
                  /\ optimized_cache'.cache[k].access_count = 1
                  /\ optimized_cache'.cache[k].value = shadow'[k].value
        /\ (/\ cache_op.op = "set"
            /\ CacheCallStep("get")
            /\ cache_op'.key = cache_op.key
            /\ cache_op'.age < Ttl) =>
              cache_op'.ret = shadow[cache_op.key].value
      ]_vars

\* a get that followed a set which overwrote the key, within the ttl
C28_Witness ==
    /\ cache_class = "OptimizedCache"
    /\ cache_op.op = "get"
    /\ cache_op.key = "A"
    /\ cache_op.ret = "w"
    /\ cache_op.age = Ttl - 1
    /\ Len(SelectSeq(optimized_cache.access_order, LAMBDA k : k = "A")) = 2
    /\ optimized_cache.cache["A"].access_count = 2

\* C30: get_stats changes nothing in the cache (mapping, entry metadata, access
\* order; expired entries stay) and reports total_entries = number of keys of the
\* mapping, total_accesses = sum of their access_count, and
\* avg_accesses_per_entry = 0 when the mapping is empty.
C30_StatsReadOnly ==
    [][ (cache_class = "OptimizedCache" /\ CacheCallStep("get_stats")) =>
          LET d == optimized_cache.cache
              stats == cache_op'.stats
          IN  /\ optimized_cache' = optimized_cache
              /\ stats.total_entries = Cardinality(DOMAIN d)
              /\ stats.total_accesses = SumOfCounts(d, DOMAIN d)
              /\ d = EmptyDict => stats.avg_accesses_per_entry.num = 0
      ]_vars

\* statistics of a cache holding two entries, one of them read once and expired
\* since
C30_Witness ==
    /\ cache_op.op = "get_stats"
    /\ cache_op.stats.total_entries = 2
    /\ cache_op.stats.total_accesses = 3
    /\ \E k \in DOMAIN optimized_cache.cache :
          /\ optimized_cache.cache[k].access_count = 2
          /\ now - optimized_cache.cache[k].last_accessed > Ttl

----------------------------------------------------------------------------
(* Claims about clear among concurrent callers *)

\* the step in which task t takes the lock and runs its call to the end
RunsToEnd(t, name) ==
    /\ conc_task[t].pc = "lock"
    /\ conc_task[t].op.name = name
    /\ conc_task'[t].pc = "done"

\* C29: clear() leaves the mapping and the access-order sequence both empty, in
\* one step that no other call can interleave with (a task is never suspended
\* inside clear), and from then on a get returns a value only for a key that was
\* set after the clear.
C29_ClearEmptiesBoth ==
    [][ \A t \in Tasks :
          /\ (conc_task[t].pc = "lock" /\ conc_task[t].op.name = "clear"
                   /\ conc_task'[t] # conc_task[t]) =>
                /\ conc_task'[t].pc = "done"
                /\ conc_cache'.cache = EmptyDict
                /\ conc_cache'.access_order = <<>>
          /\ (RunsToEnd(t, "get") /\ conc_task'[t].ret # None) =>
                conc_task[t].op.key \in since_clear
      ]_vars

\* a clear that was called while the other task's call was suspended inside the
\* lock, and a later get of that task which returned absent; the cache is empty
C29_Witness ==
    \E t1, t2 \in Tasks :
        /\ t1 # t2
        /\ conc_task[t1].pc = "done" /\ conc_task[t1].op.name = "get"
        /\ conc_task[t1].ret = None
        /\ ~conc_task[t1].suspended
        /\ conc_task[t2].pc = "done" /\ conc_task[t2].op.name = "clear"
        /\ conc_task[t2].contended
        /\ conc_cache = NewOptimizedCache
        /\ since_clear = {}
        /\ conc_calls = MaxConcCalls

----------------------------------------------------------------------------
(* Claims about the limiter's queries *)

\* the admitted calls of the identity that are inside the window at time t
InWindow(user_id, t) == SelectSeq(admitted[user_id], LAMBDA x : t - x <= Window)

\* C24: get_remaining(id) returns max(0, max_requests - n) where n is the number
\* of admitted calls of the identity still inside the window; get_user_stats(id)
\* reports the same n and remaining, window_reset_time = now + window and
\* is_rate_limited = (n >= max_requests); neither query records a timestamp:
\* after the query the stored timestamps are the admitted calls inside the window.
C24_QueriesCountTheWindow ==
    (limiter_class = "AdvancedRateLimiter"
        /\ lim_op.op \in {"get_remaining", "get_user_stats"}) =>
        LET user_id == lim_op.user
            n == Len(InWindow(user_id, lim_op.t))
            remaining == IF MaxRequests - n > 0 THEN MaxRequests - n ELSE 0
        IN  /\ lim_op.op = "get_remaining" => lim_op.ret = remaining
            /\ lim_op.op = "get_user_stats" =>
                  /\ lim_op.ret.requests_in_window = n
                  /\ lim_op.ret.remaining_requests = remaining
                  /\ lim_op.ret.window_reset_time = lim_op.t + Window
                  /\ lim_op.ret.is_rate_limited = (n >= MaxRequests)
            /\ requests[user_id] = InWindow(user_id, lim_op.t)

\* statistics asked at the limit, after an earlier admitted call left the window
C24_Witness ==
    /\ limiter_class = "AdvancedRateLimiter"
    /\ lim_op.op = "get_user_stats"
    /\ lim_op.ret.is_rate_limited
    /\ lim_op.ret.remaining_requests = 0
    /\ Len(admitted[lim_op.user]) > MaxRequests

----------------------------------------------------------------------------
(* Claims about the limiter's lock *)

\* task t is at `async with self._lock` and another task's call holds the lock
WaitsFor(t, holder) ==
    /\ pc[t] = "acquire"
    /\ lock = holder
    /\ holder # t
    /\ pc[holder] \in {"locked", "decided"}

----------------------------------------------------------------------------
(* Claims about locks and external calls *)

\* the callers whose HTTP request (token, recommendations, extraction) is in flight
HttpInFlight ==
    {c \in Callers : call[c].pc \in {"token_request", "lookup_request"}}
        \cup (IF ext.pc = "request" THEN {"extract"} ELSE {})

C26_WitnessExtract ==
    /\ ext.pc = "request"
    /\ "extract" \in HttpInFlight

----------------------------------------------------------------------------
(* Claims about the seeds and the audio features of a request, checked      *)
(* under SpecSeeds                                                           *)

TableGenres == {genre_mappings[i].genre : i \in 1..Len(genre_mappings)}

NoDuplicates(s) == \A i, j \in 1..Len(s) : s[i] = s[j] => i = j

\* entry i of the table has its word in the lower-cased keyword and a genre that
\* is not in genres
Hit(i, keyword, genres) ==
    /\ Contains(Lower(keyword), genre_mappings[i].word)
    /\ \A j \in 1..Len(genres) : genres[j] # genre_mappings[i].genre

RECURSIVE BuiltGenres(_, _)
\* the list built from the first n keywords: each keyword adds the genre of the
\* first entry, in table order, that is a hit, if there is one
BuiltGenres(keywords, n) ==
    IF n = 0 THEN <<>>
    ELSE LET before == BuiltGenres(keywords, n - 1)
             first == {i \in 1..Len(genre_mappings) :
                          /\ Hit(i, keywords[n], before)
                          /\ \A j \in 1..(i - 1) : ~Hit(j, keywords[n], before)}
         IN  IF first = {} THEN before
             ELSE Append(before, genre_mappings[CHOOSE i \in first : TRUE].genre)

\* C21: _extract_seeds returns a genre list with no duplicates and at most 5
\* elements, all of them values of the static table: the first 5 of the list
\* built by taking, for each keyword in input order, the first table entry (in
\* table order) whose word is a substring of the lower-cased keyword and whose
\* genre is not yet in the list.
C21_SeedGenres ==
    seed_call.api = "OptimizedSpotifyAPI" =>
        LET genres == seed_call.seed_genres
            built == BuiltGenres(seed_keywords, Len(seed_keywords))
        IN  /\ NoDuplicates(genres)
            /\ Len(genres) <= 5
            /\ \A i \in 1..Len(genres) : genres[i] \in TableGenres
            /\ genres = SubSeq(built, 1, IF Len(built) < 5 THEN Len(built) ELSE 5)

\* six keywords with six genres, the sixth of which is cut; one of the keywords
\* ("pop-rock" after "Rock") found the genre of its first matching entry taken
C21_Witness ==
    /\ seed_call.api = "OptimizedSpotifyAPI"
    /\ Len(BuiltGenres(seed_keywords, Len(seed_keywords))) > 5
    /\ Len(seed_call.seed_genres) = 5
    /\ \E n \in 1..Len(seed_keywords) :
          LET before == BuiltGenres(seed_keywords, n - 1)
          IN  \E i, j \in 1..Len(genre_mappings) :
                  /\ i < j
                  /\ Contains(Lower(seed_keywords[n]), genre_mappings[i].word)
                  /\ ~Hit(i, seed_keywords[n], before)
                  /\ Hit(j, seed_keywords[n], before)

\* the list with the keywords at i and i + 1 exchanged
Swapped(s, i) ==
    [j \in 1..Len(s) |-> IF j = i THEN s[i + 1] ELSE IF j = i + 1 THEN s[i] ELSE s[j]]

\* a keyword of the list is in the first set of words and one is in the second
BothMatch(first_words, second_words, keywords) ==
    /\ \E i \in 1..Len(first_words), n \in 1..Len(keywords) :
          Lower(keywords[n]) = first_words[i]
    /\ \E i \in 1..Len(second_words), n \in 1..Len(keywords) :
          Lower(keywords[n]) = second_words[i]

\* C22: _get_audio_features_from_keywords never returns min_energy with
\* max_energy nor min_valence with max_valence; when the keywords match the high
\* and the low set of a feature the result holds the high mapping (target 0.8,
\* min 0.6); and the result is the same for every permutation of the list
\* (stated for the exchange of two neighbours, which generates the
\* permutations, over every list).
C22_OneBoundPerFeature ==
    seed_call.api = "OptimizedSpotifyAPI" =>
        LET features == seed_call.audio_features
            names == DOMAIN features
        IN  /\ ~({"min_energy", "max_energy"} \subseteq names)
            /\ ~({"min_valence", "max_valence"} \subseteq names)
            /\ BothMatch(high_energy_words, low_energy_words, seed_keywords) =>
                  /\ {"target_energy", "min_energy"} \subseteq names
                  /\ features["target_energy"] = [num |-> 8, den |-> 10]
                  /\ features["min_energy"] = [num |-> 6, den |-> 10]
            /\ BothMatch(high_valence_words, low_valence_words, seed_keywords) =>
                  /\ {"target_valence", "min_valence"} \subseteq names
                  /\ features["target_valence"] = [num |-> 8, den |-> 10]
                  /\ features["min_valence"] = [num |-> 6, den |-> 10]
            /\ \A i \in 1..(Len(seed_keywords) - 1) :
                  GetAudioFeaturesFromKeywords(Swapped(seed_keywords, i)) = features

\* "calm" and "sad" come first, "energetic" and "Happy" later: both sets of both
\* features match and the high mappings are returned
C22_Witness ==
    /\ seed_call.api = "OptimizedSpotifyAPI"
    /\ BothMatch(high_energy_words, low_energy_words, seed_keywords)
    /\ BothMatch(high_valence_words, low_valence_words, seed_keywords)
    /\ BothMatch(low_energy_words, low_valence_words, SubSeq(seed_keywords, 1, 2))
    /\ "min_energy" \in DOMAIN seed_call.audio_features
    /\ "min_valence" \in DOMAIN seed_call.audio_features

\* C23: for every keyword list OptimizedSpotifyAPI._get_audio_features_from_keywords
\* returns the feature map EnhancedSpotifyAPI._get_audio_features_from_keywords
\* returns, the tempo entries (target_tempo 140 with min_tempo 120, target_tempo
\* 80 with max_tempo 100) included.
C23_SameFeatureMap ==
    seed_call.api = "OptimizedSpotifyAPI" =>
        seed_call.audio_features = EnhancedGetAudioFeaturesFromKeywords(seed_keywords)

----------------------------------------------------------------------------
(* Claims about the bookkeeping of OptimizedCache *)

\* how often key occurs in the deque
Occurrences(s, key) == Cardinality({i \in 1..Len(s) : s[i] = key})

\* C31: in every reachable state of OptimizedCache, access_order holds exactly
\* the keys of the mapping, each of them exactly once.
C31_OrderListsTheKeys ==
    cache_class = "OptimizedCache" =>
        /\ \A i \in 1..Len(optimized_cache.access_order) :
              optimized_cache.access_order[i] \in DOMAIN optimized_cache.cache
        /\ \A key \in DOMAIN optimized_cache.cache :
              Occurrences(optimized_cache.access_order, key) = 1

----------------------------------------------------------------------------
(* Claims about the sliding window of AdvancedRateLimiter *)

\* the calls of the identity that is_allowed admitted with a timestamp in [t - Window, t]
AdmittedIn(user_id, t) ==
    {i \in 1..Len(admitted[user_id]) :
        admitted[user_id][i] >= t - Window /\ admitted[user_id][i] <= t}

\* C32: for every identity and every instant t, the requests that
\* AdvancedRateLimiter.is_allowed admitted with a timestamp in [t - window, t]
\* number at most max_requests.
C32_WindowBound ==
    limiter_class = "AdvancedRateLimiter" =>
        \A user_id \in Users : \A t \in 0..(MaxLimiterTime + Window) :
            Cardinality(AdmittedIn(user_id, t)) <= MaxRequests

\* a window is full and a call inside it was rejected by the regular limit,
\* after earlier admissions had left the window
C32_Witness ==
    /\ limiter_class = "AdvancedRateLimiter"
    /\ lim_op.op = "is_allowed"
    /\ lim_op.ret = FALSE
    /\ ~lim_op.burst
    /\ Len(admitted[lim_op.user]) > MaxRequests
    /\ Cardinality(AdmittedIn(lim_op.user, now)) = MaxRequests

----------------------------------------------------------------------------
(* Claims about processing_users, checked under SpecBot *)

\* the message was admitted and its invocation has not ended
BeingProcessed(m) == admitted_at[m] >= 0 /\ InFlightMsg(m)

\* C33: at most one message per identity is between admission and its terminal
\* outcome at any time, and the identity is in processing_users meanwhile; a
\* message that arrives while its author is in processing_users is dropped
\* with no collaborator call and no reply, also when the invocations
\* interleave at their awaits.
C33_OneMessagePerIdentity ==
    /\ [](\A u \in Users :
            /\ Cardinality({m \in Msgs : Author(m) = u /\ BeingProcessed(m)}) <= 1
            /\ (\E m \in Msgs : Author(m) = u /\ BeingProcessed(m)) => u \in processing_users)
    /\ [][\A m \in Msgs :
            (/\ msg_pc[m] = "pending"
             /\ msg_pc'[m] # "pending"
             /\ Author(m) \in processing_users)
            => /\ msg_pc'[m] \in {"ignored", "dropped"}
               /\ calls'[m] = <<>>
               /\ replies'[m] = <<>>
               /\ admitted_at'[m] = -1]_vars

\* a message is at its lookup, past the cooldown of its admission, and a later
\* message of the same author was dropped: no earlier admission can have
\* dropped it, the third message is still to come
C33_Witness ==
    \E m1, m2, m3 \in Msgs :
        /\ Author(m1) = Author(m2)
        /\ BeingProcessed(m1)
        /\ msg_pc[m1] = "lookup"
        /\ msg_pc[m2] = "dropped"
        /\ msg_pc[m3] = "pending"
        /\ now - user_cooldowns[Author(m1)] >= Cooldown

\* C34: every identity added to processing_users is removed again when its
\* on_message invocation ends, whatever the way it ends: an identity in
\* processing_users has a message that was admitted and has not ended.
C34_ProcessingReleased ==
    \A u \in processing_users : \E m \in Msgs : Author(m) = u /\ BeingProcessed(m)

----------------------------------------------------------------------------
(* Claims about concurrent lookups and repeated extractions *)

\* the callers whose recommendations request for the keyword set is with the
\* collaborator
LookupsInFlight(keywords) ==
    {c \in Callers : call[c].pc = "lookup_request"
                        /\ Sorted(call[c].keywords) = Sorted(keywords)}

\* C35: when two get_recommendations calls with the same keyword set run
\* concurrently and the key is not cached, at most one recommendation-lookup
\* request is sent to the collaborator: no two callers wait for the answer to a
\* request for the same keyword set while the cache holds nothing for its key.
C35_OneLookupPerKey ==
    \A c \in Callers :
        (call[c].pc = "lookup_request" /\ call[c].key \notin DOMAIN rec_cache.cache)
            => Cardinality(LookupsInFlight(call[c].keywords)) <= 1

\* C36: calling extract_music_keywords twice with the same message text, the
\* second call within ttl and with no eviction or clear in between, sends no
\* second extraction request whenever the first request succeeded, including when
\* it yielded an empty keyword list: a call never waits for the answer to a
\* request while the cache holds an unexpired entry for its message.
C36_SecondCallFromCache ==
    ext.pc = "request" =>
        ~(/\ ext.key \in DOMAIN ext_cache.cache
          /\ now - ext_cache.cache[ext.key].timestamp <= Ttl)

----------------------------------------------------------------------------
(* Claims about the retry-after estimate of the rate-limit reply *)

\* on_message rejected the message at the limiter in this step
RejectedNow(m) == msg_pc[m] = "pending" /\ msg_pc'[m] = "reply_rate_limited"

\* C37: when a message is rejected as RateLimited with a reported retry-after of
\* r seconds, an is_allowed call for the same identity made r seconds after the
\* rejection, with no other request of that identity in between, is admitted.
C37_RetryAfterAdmits ==
    [][\A m \in Msgs :
        RejectedNow(m) =>
            LET user_id == Author(m)
                r == RemainingTime(requests'[user_id], now, now)
            IN  /\ r >= 0
                /\ AdvancedIsAllowed(requests'[user_id], MaxRequests, Window,
                                     burst_limit, now + r).ret]_vars

\* one message was rejected by the rate limit on a full window and its reply is
\* due, another was rejected by the burst check or admitted
C37_Witness ==
    \E m \in Msgs :
        /\ msg_pc[m] = "reply_rate_limited"
        /\ Len(requests[Author(m)]) = MaxRequests
        /\ burst_limit > MaxRequests
        /\ now - requests[Author(m)][MaxRequests] >= Cooldown

----------------------------------------------------------------------------
(* Claims about the lookup cache key of keyword lists with different contents *)

\* the call ended with a result read from the cache
ServedFromCache(c) ==
    call[c].pc = "returned" /\ call[c].lookups = 0 /\ call[c].tokens = 0

\* C38: treating the digest as collision-free, two keyword lists receive the
\* same lookup cache key only if they are permutations of each other; lists with
\* different contents (for example ['a,b'] and ['a', 'b']) never share a cached
\* recommendation result: a call served from the cache gets a result that was
\* stored for a permutation of its keywords.
C38_KeyOnlyOfPermutations ==
    /\ \A c1, c2 \in Callers :
        ( /\ call[c1].pc # "idle" /\ call[c2].pc # "idle"
          /\ call[c1].key = call[c2].key ) =>
            IsPermutation(call[c1].keywords, call[c2].keywords)
    /\ \A c \in Callers :
        (ServedFromCache(c) /\ call[c].key \in DOMAIN stored) =>
            IsPermutation(stored[call[c].key].keywords, call[c].keywords)

----------------------------------------------------------------------------
(* Claims about the waits of SecureAPIClient.request *)

\* C39: between attempts SecureAPIClient.request waits retry_delay * 2^k after
\* the failed attempt number k (k = 0, 1, ...), that is 1 s and then 2 s with the
\* defaults, and it does not wait after the final attempt: the k-th wait follows
\* a retried attempt and lasts retry_delay * 2^k, there is one wait per attempt
\* that another attempt follows, and none after the attempt number
\* max_retries - 1.
C39_ExponentialBackoff ==
    /\ \A i \in 1..Len(req.slept) :
        /\ req.slept[i] = client.retry_delay * 2^(i - 1)
        /\ i <= Len(req.attempts)
        /\ Retried(req.attempts[i])
        /\ i - 1 < client.max_retries - 1
    /\ req.pc = "sleeping" => Len(req.slept) = Len(req.attempts)
    /\ req.pc = "attempt" => Len(req.slept) = Len(req.attempts)
    /\ (req.pc \in {"returned", "raised"} /\ req.attempts # <<>>) =>
           Len(req.slept) = Len(req.attempts) - 1

\* the default client used up its three attempts: it waited 1 s and 2 s, and
\* not after the third
C39_Witness ==
    /\ client.max_retries = 3
    /\ client.retry_delay = 1
    /\ req.pc \in {"returned", "raised"}
    /\ Len(req.attempts) = 3
    /\ req.slept = <<1, 2>>

====
